---- MODULE Spec2Model ----
(***************************************************************************)
(* Model of packages/core/core/src/assetUtils.js: asset generation with    *)
(* the generateResults memo (generateFromAST / _generateFromAST) and the   *)
(* invalidation digest with the per-build file-hash memo                   *)
(* (getInvalidationId / getInvalidationHash / hashCache).                  *)
(*                                                                         *)
(* JavaScript strings are modelled as sequences of symbols: '' is << >>,   *)
(* + is \o.  A symbol is a one-character TLA+ string, or an opaque token   *)
(* standing for the output of a hash function (a longer TLA+ string).      *)
(***************************************************************************)
EXTENDS Integers, Sequences, FiniteSets, TLC

(***************************************************************************)
(* Bounds of the model.                                                    *)
(***************************************************************************)
\* Inputs the environment gives the invalidation side in one behaviour: every
\* entry of a list passed to getInvalidationHash counts one (an empty list counts
\* one), and so does every rebuild.
MaxHashInputs == 4
\* Inputs the environment gives the generation side in one behaviour: every
\* generateFromAST call and every setAST counts one.
MaxGenInputs == 3
\* The same count as MaxHashInputs, for the behaviours of one build in which
\* the calls are given differing ParcelOptions objects.
MaxDigestInputs == 3

\* getInvalidationHash calls on lists of env entries in one behaviour.
MaxEnvCalls == 2
\* Calls of createAssetIdFromOptions in one behaviour.
MaxIdCalls == 2
\* Messages the PostCSS plugins return from one process call.
MaxMessages == 2

VARIABLES
  \* ---- invalidation digest (assetUtils.js 177-231) ----
  files,          \* inputFS: file path -> content, or Unreadable
  hashCache,      \* the build cache: file path -> index into hashPromises, 0 = no entry
  hashPromises,   \* the promises hashFile returned, in creation order
  hashCalls,      \* the getInvalidationHash calls issued, in call order
  build,          \* number of the current build
  hashFileCount,  \* per path: hashFile invocations during the current build
  \* ---- generation (assetUtils.js 119-175) ----
  ast,            \* Asset value -> the AST the asset currently holds, or NoAST
  generateResults,\* the WeakMap: Asset value -> index into genRuns, 0 = no entry
  genRuns,        \* the _generateFromAST invocations, in creation order
  genCallers,     \* the generateFromAST calls issued, in call order
  cache,          \* options.cache: key -> stored blob, or NoBlob
  cacheLog,       \* every write the cache has completed, as <<key, blob>>
  generateCount,  \* per Asset value: invocations of the plugin's generate
  mutations,      \* number of setAST mutations so far
  \* ---- asset identity and creation (assetUtils.js 68-117) ----
  idOptions,      \* caller -> the AssetOptions it passes to createAssetIdFromOptions
  idResults,      \* caller -> the ids its calls returned, in call order
  assetOptions,   \* the AssetOptions passed to createAsset
  asset,          \* the Asset createAsset returned (a list of one), or NoAsset
  \* ---- the PostCSS transformer's transform ----
  transformRun,   \* the transform call: its arguments, position and locals
  cssAsset,       \* the MutableAsset being transformed
  assetFs,        \* asset.fs: the files that exist
  globLog,        \* the glob calls made: pattern and the files that existed
  \* ---- asset graph: resolveAndTransform (spec 4.3) ----
  depOptional,    \* dependency -> its isOptional flag
  depStatus,      \* dependency -> undeclared, pending, resolved, unresolved or failed
  graphAssets,    \* the assets that have become nodes of the asset graph
  buildResult,    \* running, success or failure
  \* ---- bundle graph (spec 4.5; declared in assetUtils.js 1221-1410) ----
  bundles,        \* the bundles of the graph
  bundleGroups,   \* the bundle groups, each with the dependency it was created for
  internalized,   \* <<bundle id, dependency>>: async edges made in-bundle
  lastCreateBundle, \* the last createBundle call: its options and how it ended
  contains,       \* <<bundle id, asset>>: the "contains" edges of the bundles
  lastGraphCall,  \* the last addAssetGraphToBundle or removeAssetGraphFromBundle call
  \* ---- symbol resolution (spec 4.4; declared in assetUtils.js 1265-1274, 1419-1434) ----
  symbolGraph,    \* symbol tables, re-export dependencies, the boundary bundle
  resolveStack,   \* the (asset, symbol) pairs being resolved, innermost last
  visitLog,       \* the (asset, symbol) pairs looked up so far, in order
  resolution      \* the query's status and its SymbolResolution

hashVars == <<files, hashCache, hashPromises, hashCalls, build, hashFileCount>>
genVars == <<ast, generateResults, genRuns, genCallers, cache, cacheLog, generateCount,
             mutations>>
assetVars == <<idOptions, idResults, assetOptions, asset>>
\* The variables of the sections after generation.
cssVars == <<transformRun, cssAsset, assetFs, globLog>>
buildVars == <<depOptional, depStatus, graphAssets, buildResult>>
bundleVars == <<bundles, bundleGroups, internalized, lastCreateBundle, contains,
               lastGraphCall>>
symbolVars == <<symbolGraph, resolveStack, visitLog, resolution>>
laterVars == <<assetVars, cssVars, buildVars, bundleVars, symbolVars>>
notAssetVars == <<hashVars, genVars, cssVars, buildVars, bundleVars, symbolVars>>
notCssVars == <<hashVars, genVars, assetVars, buildVars, bundleVars, symbolVars>>
notBuildVars == <<hashVars, genVars, assetVars, cssVars, bundleVars, symbolVars>>
notBundleVars == <<hashVars, genVars, assetVars, cssVars, buildVars, symbolVars>>
notSymbolVars == <<hashVars, genVars, assetVars, cssVars, buildVars, bundleVars>>
vars == <<files, hashCache, hashPromises, hashCalls, build, hashFileCount,
          ast, generateResults, genRuns, genCallers, cache, cacheLog, generateCount,
          mutations, idOptions, idResults, assetOptions, asset,
          transformRun, cssAsset, assetFs, globLog,
          depOptional, depStatus, graphAssets, buildResult,
          bundles, bundleGroups, internalized, lastCreateBundle, contains,
          lastGraphCall,
          symbolGraph, resolveStack, visitLog, resolution>>

(***************************************************************************)
(* Strings.                                                                *)
(***************************************************************************)
\* UTF-16 code unit of the characters the model uses (JS compares strings by code unit).
CharCode(c) ==
  CASE c = ":" -> 58
    [] c = "a" -> 97
    [] c = "b" -> 98
    [] c = "e" -> 101
    [] c = "f" -> 102
    [] c = "g" -> 103
    [] c = "i" -> 105
    [] c = "l" -> 108
    [] c = "n" -> 110
    [] c = "o" -> 111
    [] c = "p" -> 112
    [] c = "t" -> 116
    [] c = "v" -> 118
    [] c = "x" -> 120
    [] c = "y" -> 121

\* s < t on JS strings: lexicographic by code unit, a proper prefix is smaller.
RECURSIVE StrLess(_, _)
StrLess(s, t) ==
  IF t = << >> THEN FALSE
  ELSE IF s = << >> THEN TRUE
  ELSE IF Head(s) = Head(t) THEN StrLess(Tail(s), Tail(t))
  ELSE CharCode(Head(s)) < CharCode(Head(t))

\* The value JS gives for a missing property.
Undefined == << "undefined" >>

\* Results of operations that may throw: a value, or a thrown Error.
Ok(v) == [ok |-> TRUE, value |-> v]
Throw(msg) == [ok |-> FALSE, value |-> msg]

\* hashString of @parcel/hash: an opaque digest of its input, one token long.
hashString(s) == << "hashString" \o ToString(s) >>

\* What hashFile of @parcel/utils resolves to for a file of the given content.
hashFileOf(content) == << "hashFile" \o ToString(content) >>

(***************************************************************************)
(* Invalidations (RequestInvalidation) and the build's inputs.             *)
(***************************************************************************)
FilePaths == { <<"a">>, <<"b">> }
EnvKeys == { <<"e">> }
OptionKeys == { <<"o">> }

FileInvalidation(p) == [type |-> "file", filePath |-> p, key |-> Undefined]
EnvInvalidation(k) == [type |-> "env", filePath |-> Undefined, key |-> k]
OptionInvalidation(k) == [type |-> "option", filePath |-> Undefined, key |-> k]
\* An entry whose kind is none of file, env, option.
UnknownInvalidation == [type |-> "glob", filePath |-> Undefined, key |-> <<"x">>]

Invalidations ==
  {FileInvalidation(p) : p \in FilePaths}
    \cup {EnvInvalidation(k) : k \in EnvKeys}
    \cup {OptionInvalidation(k) : k \in OptionKeys}
    \cup {UnknownInvalidation}

KnownTypes == {"file", "env", "option"}

\* All lists of at most n entries.
RECURSIVE ListsUpTo(_)
ListsUpTo(n) ==
  IF n = 0 THEN { << >> }
  ELSE LET shorter == ListsUpTo(n - 1)
       IN shorter \cup {Append(l, e) : l \in {m \in shorter : Len(m) = n - 1},
                                       e \in Invalidations}

\* The lists a call may pass when budget inputs are left.
InvalidationLists == [budget \in 0..MaxHashInputs |-> ListsUpTo(budget)]

\* File contents; Unreadable stands for a file hashFile cannot read.
Unreadable == << "ENOENT" >>
Contents == { <<"x">>, <<"y">> }

\* The ParcelOptions objects a call may be given: env is options.env and option
\* holds the build options read by 'option' invalidations.  fullOptions defines
\* every key, bareOptions defines none.
fullOptions == [env |-> [k \in EnvKeys |-> <<"v">>], option |-> [k \in OptionKeys |-> <<"p">>]]
bareOptions == [env |-> [k \in {} |-> << >>], option |-> [k \in {} |-> << >>]]
ParcelOptions == {fullOptions, bareOptions}

\* hashFromOption of ./utils applied to an option's value.
hashFromOption(value) == IF value = Undefined THEN << >> ELSE value

(***************************************************************************)
(* getInvalidationId, assetUtils.js 177-188.                               *)
(***************************************************************************)
\* Faulty variant: an entry of unknown kind gets an id like any other.
getInvalidationIdOfAnyKind(invalidation) ==
  CASE invalidation.type = "file" ->
         Ok(<<"f", "i", "l", "e", ":">> \o invalidation.filePath)
    [] invalidation.type = "env" ->
         Ok(<<"e", "n", "v", ":">> \o invalidation.key)
    [] invalidation.type = "option" ->
         Ok(<<"o", "p", "t", "i", "o", "n", ":">> \o invalidation.key)
    [] OTHER ->
         Ok(<<"g", ":">> \o invalidation.key)

getInvalidationId(invalidation) ==
  CASE invalidation.type = "file" ->
         Ok(<<"f", "i", "l", "e", ":">> \o invalidation.filePath)
    [] invalidation.type = "env" ->
         Ok(<<"e", "n", "v", ":">> \o invalidation.key)
    [] invalidation.type = "option" ->
         Ok(<<"o", "p", "t", "i", "o", "n", ":">> \o invalidation.key)
    [] OTHER ->
         Throw(<<"Unknown invalidation type: ", invalidation.type>>)

\* Faulty variant: the entries themselves are compared, not their ids, so that
\* no entry ever compares below another.
compareWithoutIds(a, b) == Ok(1)

\* The comparator of line 202; it throws when getInvalidationId does.
compareInvalidations(a, b) ==
  LET ida == getInvalidationId(a)
      idb == getInvalidationId(b)
  IN IF ~ida.ok THEN ida
     ELSE IF ~idb.ok THEN idb
     ELSE Ok(IF StrLess(ida.value, idb.value) THEN -1 ELSE 1)

\* Array.prototype.sort on a copy (lines 200-202), as an insertion sort driven
\* by the comparator: x is moved left past every element it compares below.
RECURSIVE InsertSorted(_, _)
InsertSorted(sorted, x) ==
  IF sorted = << >> THEN Ok(<< x >>)
  ELSE LET last == sorted[Len(sorted)]
           order == compareInvalidations(x, last)
       IN IF ~order.ok THEN order
          ELSE IF order.value < 0
            THEN LET rest == InsertSorted(SubSeq(sorted, 1, Len(sorted) - 1), x)
                 IN IF ~rest.ok THEN rest ELSE Ok(Append(rest.value, last))
            ELSE Ok(Append(sorted, x))

RECURSIVE SortFrom(_, _, _)
SortFrom(list, i, sorted) ==
  IF i > Len(list) THEN Ok(sorted)
  ELSE LET next == InsertSorted(sorted, list[i])
       IN IF ~next.ok THEN next ELSE SortFrom(list, i + 1, next.value)

sortedInvalidationsOf(invalidations) == SortFrom(invalidations, 1, << >>)

(***************************************************************************)
(* getInvalidationHash, assetUtils.js 190-231.                             *)
(*                                                                         *)
(* A call is a record: invalidations is the argument; sortedInvalidations, *)
(* i (the 1-based position of the loop), hashes and awaiting (the index of *)
(* the awaited hashFile promise) are the locals of a suspended call;       *)
(* status is the state of the returned promise and result its value (the   *)
(* digest, or the Error it was rejected with).  The locals of a settled    *)
(* call are dropped.  awaited (the promises the call has awaited) and      *)
(* build (the build the call was issued in) record the call's history.     *)
(***************************************************************************)
NoEntry == 0

PendingCall(invalidations, options, sorted, i, hashes, awaiting, awaited, b) ==
  [invalidations |-> invalidations, options |-> options,
   sortedInvalidations |-> sorted, i |-> i,
   hashes |-> hashes, awaiting |-> awaiting, awaited |-> awaited \cup {awaiting},
   status |-> "pending", result |-> << >>, build |-> b]

SettledCall(invalidations, options, status, result, awaited, b) ==
  [invalidations |-> invalidations, options |-> options,
   sortedInvalidations |-> << >>, i |-> 0,
   hashes |-> << >>, awaiting |-> NoEntry, awaited |-> awaited,
   status |-> status, result |-> result, build |-> b]

\* options.env[key] and options[key]: undefined when the key is missing.
envLookup(options, key) ==
  IF key \in DOMAIN options.env THEN options.env[key] ELSE Undefined
optionLookup(options, key) ==
  IF key \in DOMAIN options.option THEN options.option[key] ELSE Undefined

\* Faulty variant: the value is used as it is, without the || ''.
envValueNotDefaulted(options, key) == envLookup(options, key)

\* options.env[key] || '' (line 219): undefined and '' both give ''.
envValueOrEmpty(options, key) ==
  IF envLookup(options, key) = Undefined \/ envLookup(options, key) = << >>
    THEN << >> ELSE envLookup(options, key)

\* Faulty variant: no early return.
isEmptyListNever(invalidations) == FALSE

\* The early return of lines 196-198.
isEmptyList(invalidations) == Len(invalidations) = 0

\* Faulty variant: a rejected promise in the memo counts as no entry.
hashCacheGetUnlessRejected(filePath) ==
  IF hashCache[filePath] # NoEntry /\ hashPromises[hashCache[filePath]].state = "rejected"
    THEN NoEntry
    ELSE hashCache[filePath]

\* Faulty variant: the memo is looked up under a key it never holds.
hashCacheGetMiss(filePath) == NoEntry

\* hashCache.get(filePath), line 209: the memoized promise, or NoEntry.
hashCacheGet(filePath) == hashCache[filePath]

\* Faulty variant of entryStep: an 'env' entry takes in every build option too.
entryStepReadingAllOptions(invalidation, options) ==
  CASE invalidation.type = "file" -> [kind |-> "file", text |-> << >>]
    [] invalidation.type = "env" ->
         [kind |-> "append",
          text |-> invalidation.key \o <<":">> \o envValueOrEmpty(options, invalidation.key)
                     \o ToString(options.option)]
    [] invalidation.type = "option" ->
         [kind |-> "append",
          text |-> invalidation.key \o <<":">>
                     \o hashFromOption(optionLookup(options, invalidation.key))]
    [] OTHER ->
         [kind |-> "throw",
          text |-> <<"Unknown invalidation type: ", invalidation.type>>]

\* Faulty variant of entryStep: an entry of unknown kind is passed over.
entryStepSkippingUnknown(invalidation, options) ==
  CASE invalidation.type = "file" -> [kind |-> "file", text |-> << >>]
    [] invalidation.type = "env" ->
         [kind |-> "append",
          text |-> invalidation.key \o <<":">> \o envValueOrEmpty(options, invalidation.key)]
    [] invalidation.type = "option" ->
         [kind |-> "append",
          text |-> invalidation.key \o <<":">>
                     \o hashFromOption(optionLookup(options, invalidation.key))]
    [] OTHER -> [kind |-> "append", text |-> << >>]

\* The switch of lines 206-227 for one entry: a 'file' entry goes to the memo and
\* an await, an 'env' or 'option' entry appends key ':' value to hashes, any
\* other entry throws.
entryStep(invalidation, options) ==
  CASE invalidation.type = "file" -> [kind |-> "file", text |-> << >>]
    [] invalidation.type = "env" ->
         [kind |-> "append",
          text |-> invalidation.key \o <<":">> \o envValueOrEmpty(options, invalidation.key)]
    [] invalidation.type = "option" ->
         [kind |-> "append",
          text |-> invalidation.key \o <<":">>
                     \o hashFromOption(optionLookup(options, invalidation.key))]
    [] OTHER ->
         [kind |-> "throw",
          text |-> <<"Unknown invalidation type: ", invalidation.type>>]

\* The loop of lines 205-228 from position i, run until it returns, throws, or
\* reaches a 'file' entry (where it consults the memo and then awaits).
RECURSIVE runLoop(_, _, _, _)
runLoop(sorted, options, i, hashes) ==
  IF i > Len(sorted) THEN [kind |-> "return", i |-> i, hashes |-> hashes]
  ELSE LET step == entryStep(sorted[i], options)
       IN CASE step.kind = "file" -> [kind |-> "file", i |-> i, hashes |-> hashes]
            [] step.kind = "append" -> runLoop(sorted, options, i + 1, hashes \o step.text)
            [] step.kind = "throw" -> [kind |-> "throw", i |-> i, hashes |-> step.text]

\* The call at position idx of calls runs its loop from i: it settles, or it
\* stops at a 'file' entry, creating and memoizing the hashFile promise when the
\* memo has none (lines 209-213), and awaits it (line 214).
Advance(calls, idx, invalidations, options, sorted, i, hashes, awaited, b) ==
  LET r == runLoop(sorted, options, i, hashes)
  IN CASE r.kind = "return" ->
            /\ hashCalls' = [calls EXCEPT
                 ![idx] = SettledCall(invalidations, options, "resolved", hashString(r.hashes),
                                      awaited, b)]
            /\ UNCHANGED <<hashCache, hashPromises, hashFileCount>>
       [] r.kind = "throw" ->
            /\ hashCalls' = [calls EXCEPT
                 ![idx] = SettledCall(invalidations, options, "rejected", r.hashes, awaited,
                                      b)]
            /\ UNCHANGED <<hashCache, hashPromises, hashFileCount>>
       [] r.kind = "file" ->
            LET filePath == sorted[r.i].filePath
                fileHash == hashCacheGet(filePath)
            IN IF fileHash # NoEntry
                 THEN /\ hashCalls' = [calls EXCEPT ![idx] =
                           PendingCall(invalidations, options, sorted, r.i, r.hashes, fileHash,
                                       awaited, b)]
                      /\ UNCHANGED <<hashCache, hashPromises, hashFileCount>>
                 ELSE /\ hashPromises' = Append(hashPromises,
                           [filePath |-> filePath, state |-> "pending", value |-> << >>,
                            build |-> build])
                      /\ hashCache' = [hashCache EXCEPT ![filePath] = Len(hashPromises) + 1]
                      /\ hashFileCount' = [hashFileCount EXCEPT ![filePath] = @ + 1]
                      /\ hashCalls' = [calls EXCEPT ![idx] =
                           PendingCall(invalidations, options, sorted, r.i, r.hashes,
                                       Len(hashPromises) + 1, awaited, b)]

\* The inputs used so far, and what a call with the given list adds.
InputCost(invalidations) == IF Len(invalidations) = 0 THEN 1 ELSE Len(invalidations)

RECURSIVE CallsCost(_)
CallsCost(calls) ==
  IF calls = << >> THEN 0 ELSE InputCost(Head(calls).invalidations) + CallsCost(Tail(calls))

HashInputsUsed == CallsCost(hashCalls) + (build - 1)

\* getInvalidationHash(invalidations, options) is called: lines 196-214 up to the
\* first await.
GetInvalidationHash(invalidations, options) ==
  /\ HashInputsUsed + InputCost(invalidations) <= MaxHashInputs
  /\ LET idx == Len(hashCalls) + 1
         placeholder == SettledCall(invalidations, options, "pending", << >>, {}, build)
         sorted == sortedInvalidationsOf(invalidations)
     IN IF isEmptyList(invalidations)
          THEN /\ hashCalls' = Append(hashCalls,
                                      SettledCall(invalidations, options, "resolved", << >>, {},
                                                  build))
               /\ UNCHANGED <<hashCache, hashPromises, hashFileCount>>
          ELSE IF ~sorted.ok
            THEN /\ hashCalls' = Append(hashCalls,
                        SettledCall(invalidations, options, "rejected", sorted.value, {},
                                    build))
                 /\ UNCHANGED <<hashCache, hashPromises, hashFileCount>>
            ELSE Advance(Append(hashCalls, placeholder), idx, invalidations, options,
                         sorted.value, 1, << >>, {}, build)
  /\ UNCHANGED <<files, build>>
  /\ UNCHANGED <<genVars, laterVars>>

\* A hashFile promise settles (hashFile of @parcel/utils, called on line 211):
\* with the hash of the file's content, or rejected when the file cannot be read.
HashFileSettles(p) ==
  /\ hashPromises[p].state = "pending"
  /\ LET content == files[hashPromises[p].filePath]
     IN hashPromises' = [hashPromises EXCEPT ![p] =
          IF content = Unreadable
            THEN [@ EXCEPT !.state = "rejected", !.value = Unreadable]
            ELSE [@ EXCEPT !.state = "fulfilled", !.value = hashFileOf(content)]]
  /\ UNCHANGED <<files, hashCache, hashCalls, build, hashFileCount>>
  /\ UNCHANGED <<genVars, laterVars>>

\* The await of line 214 completes for call c: the hash is appended and the loop
\* goes on (lines 214-228), or the call is rejected with the promise's error.
ResumeHashCall(c) ==
  /\ hashCalls[c].status = "pending"
  /\ LET call == hashCalls[c]
         promise == hashPromises[call.awaiting]
     IN /\ promise.state # "pending"
        /\ IF promise.state = "fulfilled"
             THEN Advance(hashCalls, c, call.invalidations, call.options,
                          call.sortedInvalidations,
                          call.i + 1, call.hashes \o promise.value, call.awaited,
                          call.build)
             ELSE /\ hashCalls' = [hashCalls EXCEPT ![c] =
                       SettledCall(call.invalidations, call.options, "rejected",
                                   promise.value,
                                   call.awaited, call.build)]
                  /\ UNCHANGED <<hashCache, hashPromises, hashFileCount>>
  /\ UNCHANGED <<files, build>>
  /\ UNCHANGED <<genVars, laterVars>>

\* A file is written, removed or made readable while the build is running; the
\* build caches are those of the running build.
FileChanges(filePath, content) ==
  /\ content # files[filePath]
  /\ files' = [files EXCEPT ![filePath] = content]
  /\ UNCHANGED <<hashCache, hashPromises, hashCalls, build, hashFileCount>>
  /\ UNCHANGED <<genVars, laterVars>>

\* Faulty variant: the memo survives the build.
keepBuildCaches == hashCache

\* clearBuildCaches of ./buildCache: every build cache is emptied.
clearBuildCaches == [p \in FilePaths |-> NoEntry]

\* A file changes and the change is observed: the next build starts, with the
\* build caches cleared.
Rebuild(filePath, content) ==
  /\ HashInputsUsed < MaxHashInputs
  /\ content # files[filePath]
  /\ files' = [files EXCEPT ![filePath] = content]
  /\ hashCache' = clearBuildCaches
  /\ hashFileCount' = [p \in FilePaths |-> 0]
  /\ build' = build + 1
  /\ UNCHANGED <<hashPromises, hashCalls>>
  /\ UNCHANGED <<genVars, laterVars>>

NextHash ==
  \/ \E invalidations \in InvalidationLists[MaxHashInputs - HashInputsUsed] :
       GetInvalidationHash(invalidations, fullOptions)
  \/ \E p \in 1..Len(hashPromises) : HashFileSettles(p)
  \/ \E c \in 1..Len(hashCalls) : ResumeHashCall(c)
  \/ \E filePath \in FilePaths, content \in Contents \cup {Unreadable} :
       Rebuild(filePath, content)

(***************************************************************************)
(* Assets and generation, assetUtils.js 119-175.                           *)
(*                                                                         *)
(* An Asset value is an object; two objects may describe the same asset    *)
(* (same id, contentKey and mapKey).  v1 and v2 are two objects of asset   *)
(* a, v3 is the object of asset b.                                         *)
(***************************************************************************)
AssetValues == {"v1", "v2", "v3"}

assetId(value) == IF value = "v3" THEN <<"b">> ELSE <<"a">>
contentKey(value) == assetId(value) \o <<":", "c">>
mapKey(value) == assetId(value) \o <<":", "m">>
CacheKeys == {contentKey(v) : v \in AssetValues} \cup {mapKey(v) : v \in AssetValues}

NoAST == << "null" >>
ASTs == { <<"t">>, <<"n">> }
NoMap == << "undefined map" >>
NoBlob == << "no blob" >>

\* What the plugin's generate returns for an AST.
generatedContent(tree) == << "content of " \o ToString(tree) >>
generatedMap(tree) == << "map of " \o ToString(tree) >>

\* Faulty variants of the memo lookup and store, used to test the properties:
\* a lookup by the wrong object (always a miss), a lookup by asset id, a lookup
\* that ignores the key, and a store that is skipped.
generateResultsGetByAsset(value) == NoEntry

generateResultsGetById(value) ==
  LET same == {w \in AssetValues :
                 assetId(w) = assetId(value) /\ generateResults[w] # NoEntry}
  IN IF same = {} THEN NoEntry ELSE generateResults[CHOOSE w \in same : TRUE]

generateResultsGetAny(value) ==
  LET set == {w \in AssetValues : generateResults[w] # NoEntry}
  IN IF set = {} THEN NoEntry ELSE generateResults[CHOOSE w \in set : TRUE]

generateResultsSetSkipped(value, output) == generateResults

\* Faulty variant: a rejected promise counts as no entry, so a failure is retried.
generateResultsGetRetrying(value) ==
  IF generateResults[value] # NoEntry /\ genRuns[generateResults[value]].pc = "rejected"
    THEN NoEntry
    ELSE generateResults[value]

\* generateResults.get(asset.value), line 124: the WeakMap is keyed by the object.
generateResultsGet(value) == generateResults[value]

\* generateResults.set(asset.value, output), line 127.
generateResultsSet(value, output) == [generateResults EXCEPT ![value] = output]

\* A _generateFromAST invocation (lines 132-175) that has reached its first await.
NewRun(value) ==
  [value |-> value, pc |-> "getAST", tree |-> NoAST, content |-> NoBlob,
   map |-> NoMap, contentWrite |-> "none", mapWrite |-> "none",
   pluginLoaded |-> FALSE, error |-> << >>]

GenInputsUsed == Len(genCallers) + mutations

\* generateFromAST(asset), lines 121-130; the caller is handed the promise output.
GenerateFromAST(value) ==
  /\ GenInputsUsed < MaxGenInputs
  /\ LET output == generateResultsGet(value)
     IN IF output = NoEntry
          THEN /\ genRuns' = Append(genRuns, NewRun(value))
               /\ generateResults' = generateResultsSet(value, Len(genRuns) + 1)
               /\ genCallers' = Append(genCallers,
                    [value |-> value, output |-> Len(genRuns) + 1,
                     settledAtCall |-> FALSE, treeAtCall |-> ast[value]])
          ELSE /\ genCallers' = Append(genCallers,
                    [value |-> value, output |-> output,
                     settledAtCall |-> genRuns[output].pc \in {"resolved", "rejected"},
                     treeAtCall |-> ast[value]])
               /\ UNCHANGED <<genRuns, generateResults>>
  /\ UNCHANGED <<ast, cache, cacheLog, generateCount, mutations>>
  /\ UNCHANGED <<hashVars, laterVars>>

Reject(run, msg) == [run EXCEPT !.pc = "rejected", !.error = msg]

\* Faulty variant: a missing AST goes unnoticed.
astMissingUnnoticed(tree) == FALSE

\* ast == null, line 134.
astMissing(tree) == tree = NoAST

\* asset.getAST() resolves (lines 133-144): without an AST the run throws,
\* otherwise loadPlugin is called and awaited.
GetASTResolves(r) ==
  /\ genRuns[r].pc = "getAST"
  /\ LET run == genRuns[r]
     IN genRuns' = [genRuns EXCEPT ![r] =
          IF astMissing(ast[run.value])
            THEN Reject(run, <<"Asset has no AST">>)
            ELSE [run EXCEPT !.pc = "loadPlugin", !.pluginLoaded = TRUE,
                             !.tree = ast[run.value]]]
  /\ UNCHANGED <<ast, generateResults, genCallers, cache, cacheLog, generateCount, mutations>>
  /\ UNCHANGED <<hashVars, laterVars>>

\* loadPlugin settles (lines 139-155): it fails, or gives a plugin without a
\* generate method (the run throws), or one with it: generate is called.
LoadPluginSettles(r, outcome) ==
  /\ genRuns[r].pc = "loadPlugin"
  /\ CASE outcome = "fails" ->
            /\ genRuns' = [genRuns EXCEPT ![r] = Reject(@, <<"loadPlugin failed">>)]
            /\ UNCHANGED generateCount
       [] outcome = "no generate" ->
            /\ genRuns' = [genRuns EXCEPT ![r] =
                 Reject(@, <<"plugin does not have a generate method">>)]
            /\ UNCHANGED generateCount
       [] outcome = "generate" ->
            /\ genRuns' = [genRuns EXCEPT ![r] = [@ EXCEPT !.pc = "generate"]]
            /\ generateCount' = [generateCount EXCEPT ![genRuns[r].value] = @ + 1]
  /\ UNCHANGED <<ast, generateResults, genCallers, cache, cacheLog, mutations>>
  /\ UNCHANGED <<hashVars, laterVars>>

\* The cache writes line 159-166 starts for a generated map: setBlob under mapKey
\* only when map?.toBuffer() is not null.
mapWriteFor(map) == IF map = NoMap THEN "none" ELSE "pending"

\* generate settles (lines 150-166): it throws, or returns {content, map} with or
\* without a map; the cache writes are started and Promise.all is awaited.
GenerateSettles(r, outcome) ==
  /\ genRuns[r].pc = "generate"
  /\ LET run == genRuns[r]
         map == IF outcome = "content and map" THEN generatedMap(run.tree) ELSE NoMap
     IN genRuns' = [genRuns EXCEPT ![r] =
          IF outcome = "throws"
            THEN Reject(run, <<"generate threw">>)
            ELSE [run EXCEPT !.pc = "cacheWrite",
                             !.content = generatedContent(run.tree),
                             !.map = map,
                             !.contentWrite = "pending",
                             !.mapWrite = mapWriteFor(map)]]
  /\ UNCHANGED <<ast, generateResults, genCallers, cache, cacheLog, generateCount, mutations>>
  /\ UNCHANGED <<hashVars, laterVars>>

\* The cache after a completed write of blob under key.
cacheSet(key, blob) == [cache EXCEPT ![key] = blob]

\* cache.setStream(contentKey, blobToStream(content)) finishes (lines 160-163).
SetStreamSettles(r, ok) ==
  /\ genRuns[r].contentWrite = "pending"
  /\ genRuns' = [genRuns EXCEPT ![r].contentWrite = IF ok THEN "done" ELSE "failed"]
  /\ cache' = IF ok THEN cacheSet(contentKey(genRuns[r].value), genRuns[r].content)
              ELSE cache
  /\ cacheLog' = IF ok THEN cacheLog \cup {<<contentKey(genRuns[r].value), genRuns[r].content>>}
                 ELSE cacheLog
  /\ UNCHANGED <<ast, generateResults, genCallers, generateCount, mutations>>
  /\ UNCHANGED <<hashVars, laterVars>>

\* cache.setBlob(mapKey, mapBuffer) finishes (line 165).
SetBlobSettles(r, ok) ==
  /\ genRuns[r].mapWrite = "pending"
  /\ genRuns' = [genRuns EXCEPT ![r].mapWrite = IF ok THEN "done" ELSE "failed"]
  /\ cache' = IF ok THEN cacheSet(mapKey(genRuns[r].value), genRuns[r].map)
              ELSE cache
  /\ cacheLog' = IF ok THEN cacheLog \cup {<<mapKey(genRuns[r].value), genRuns[r].map>>}
                 ELSE cacheLog
  /\ UNCHANGED <<ast, generateResults, genCallers, generateCount, mutations>>
  /\ UNCHANGED <<hashVars, laterVars>>

\* Faulty variant: the writes are not awaited.
writesNotAwaited(run) == TRUE

\* Promise.all of lines 159-166 is fulfilled once every started write is done.
writesDone(run) == run.contentWrite = "done" /\ run.mapWrite \in {"done", "none"}
writeFailed(run) == run.contentWrite = "failed" \/ run.mapWrite = "failed"

\* The await of line 159 completes (lines 159-175): the run returns {content, map},
\* or is rejected as soon as one write has failed.
PromiseAllSettles(r) ==
  /\ genRuns[r].pc = "cacheWrite"
  /\ \/ /\ writesDone(genRuns[r])
        /\ genRuns' = [genRuns EXCEPT ![r].pc = "resolved"]
     \/ /\ writeFailed(genRuns[r])
        /\ genRuns' = [genRuns EXCEPT ![r] = Reject(@, <<"cache write failed">>)]
  /\ UNCHANGED <<ast, generateResults, genCallers, cache, cacheLog, generateCount, mutations>>
  /\ UNCHANGED <<hashVars, laterVars>>

\* MutableAsset.setAST: the asset gets another AST and keeps its Asset value.
SetAST(value, tree) ==
  /\ GenInputsUsed < MaxGenInputs
  /\ ast[value] # NoAST
  /\ tree # ast[value]
  /\ ast' = [ast EXCEPT ![value] = tree]
  /\ mutations' = mutations + 1
  /\ UNCHANGED <<generateResults, genRuns, genCallers, cache, cacheLog, generateCount>>
  /\ UNCHANGED <<hashVars, laterVars>>

(***************************************************************************)
(* Asset identity and creation, assetUtils.js 39-117.                      *)
(*                                                                         *)
(* An AssetOptions object is a record; a field that is missing or null     *)
(* holds Null.  Booleans, Maps and plain objects are tokens.               *)
(***************************************************************************)
Null == << "null" >>
True == << "true" >>
False == << "false" >>
NewMap == << "Map" >>
EmptyObject == << "{", "}" >>

\* Faulty variant: || in place of ??, so that false and '' are replaced too.
orDefaultFalsy(value, default) ==
  IF value \in {Null, False, << >>} THEN default ELSE value

\* value ?? default: the default replaces null and undefined only.
orDefault(value, default) == IF value = Null THEN default ELSE value

\* value || default: the default replaces every falsy value.
orElse(value, default) ==
  IF value \in {Null, False, << >>} THEN default ELSE value

\* objectSortedEntries of @parcel/utils: the entries of an object (here a list
\* of <<key, value>> in insertion order) sorted by key.
RECURSIVE InsertEntry(_, _)
InsertEntry(sorted, entry) ==
  IF sorted = << >> THEN << entry >>
  ELSE IF StrLess(entry[1], sorted[Len(sorted)][1])
    THEN Append(InsertEntry(SubSeq(sorted, 1, Len(sorted) - 1), entry),
                sorted[Len(sorted)])
    ELSE Append(sorted, entry)

\* Faulty variant: the entries are left in insertion order.
objectEntriesUnsorted(obj) == obj

RECURSIVE objectSortedEntries(_)
objectSortedEntries(obj) ==
  IF obj = << >> THEN << >>
  ELSE InsertEntry(objectSortedEntries(SubSeq(obj, 1, Len(obj) - 1)), obj[Len(obj)])

\* JSON.stringify of a list of [key, value] pairs of strings.
JSONString(str) == <<"\"">> \o str \o <<"\"">>

RECURSIVE JSONEntries(_)
JSONEntries(entries) ==
  IF entries = << >> THEN << >>
  ELSE (IF Len(entries) > 1
          THEN JSONEntries(SubSeq(entries, 1, Len(entries) - 1)) \o <<",">>
          ELSE << >>)
       \o <<"[">> \o JSONString(entries[Len(entries)][1]) \o <<",">>
       \o JSONString(entries[Len(entries)][2]) \o <<"]">>

JSONStringify(entries) == <<"[">> \o JSONEntries(entries) \o <<"]">>

\* Faulty variant: the unique key is left out of the id.
uniqueKeyIgnored(options) == << >>

\* Line 69: options.uniqueKey ?? ''.
uniqueKeyOf(options) == orDefault(options.uniqueKey, << >>)

\* Faulty variant: the id is always based on the file path.
idBaseIgnored(options) == options.filePath

\* Line 70: options.idBase != null ? options.idBase : options.filePath.
idBaseOf(options) == IF options.idBase # Null THEN options.idBase ELSE options.filePath

\* A query object with the given entries, in insertion order, and no query.
Query(entries) == [given |-> TRUE, entries |-> entries]
NoQuery == [given |-> FALSE, entries |-> << >>]

\* Lines 71-73: the query as a string, '' without a query.
queryStringOf(options) ==
  IF options.query.given THEN JSONStringify(objectSortedEntries(options.query.entries))
  ELSE << >>

\* createAssetIdFromOptions, lines 68-85.
createAssetIdFromOptions(options) ==
  hashString(idBaseOf(options)
               \o options.type
               \o options.env.id
               \o uniqueKeyOf(options)
               \o <<":">>
               \o orDefault(options.pipeline, << >>)
               \o <<":">>
               \o queryStringOf(options))

\* createAsset, lines 87-117.
createAsset(options) ==
  [id |-> IF options.id # Null THEN options.id ELSE createAssetIdFromOptions(options),
   committed |-> orDefault(options.committed, False),
   hash |-> options.hash,
   filePath |-> options.filePath,
   query |-> options.query,
   bundleBehavior |-> Null,
   isBundleSplittable |-> orDefault(options.isBundleSplittable, True),
   type |-> options.type,
   dependencies |-> orElse(options.dependencies, NewMap),
   isSource |-> options.isSource,
   pipeline |-> options.pipeline,
   env |-> options.env,
   meta |-> orElse(options.meta, EmptyObject),
   stats |-> options.stats,
   symbols |-> options.symbols,
   sideEffects |-> orDefault(options.sideEffects, True),
   uniqueKey |-> orDefault(options.uniqueKey, << >>)]

\* The option records given to the calls.  The fields that are not inputs of
\* the id take one of two sets of values.
OtherFields ==
  { [hash |-> Null, meta |-> Null, isSource |-> True, stats |-> <<"s">>,
     symbols |-> Null, sideEffects |-> Null],
    [hash |-> <<"h">>, meta |-> <<"{", "m", "}">>, isSource |-> False,
     stats |-> <<"z">>, symbols |-> <<"Map", "y">>, sideEffects |-> False] }

AssetOptions(id, idBase, filePath, type, uniqueKey, pipeline, query, other, committed, isBundleSplittable, dependencies) ==
  [id |-> id, committed |-> committed, hash |-> other.hash, idBase |-> idBase,
   filePath |-> filePath, query |-> query, type |-> type,
   dependencies |-> dependencies, isBundleSplittable |-> isBundleSplittable,
   isSource |-> other.isSource, env |-> [id |-> <<"e">>], meta |-> other.meta,
   pipeline |-> pipeline, stats |-> other.stats, symbols |-> other.symbols,
   sideEffects |-> other.sideEffects, uniqueKey |-> uniqueKey]

IdBases == {Null, <<"a">>}
AssetPaths == {<<"a">>, <<"a", "b">>}
AssetTypes == {<<"j">>, <<"b", "j">>}
UniqueKeys == {Null, << >>, <<"u">>}
Pipelines == {Null, <<"p">>}
Queries == {NoQuery, Query(<< <<<<"a">>, <<"v">>>> >>)}

IdOptions ==
  {AssetOptions(Null, idBase, filePath, type, uniqueKey, pipeline, query, other,
                Null, Null, Null) :
     idBase \in IdBases, filePath \in AssetPaths, type \in AssetTypes,
     uniqueKey \in UniqueKeys, pipeline \in Pipelines, query \in Queries,
     other \in OtherFields}

CreateOptions ==
  {[AssetOptions(id, idBase, <<"a">>, <<"j">>, uniqueKey, Null, NoQuery, other,
                 committed, isBundleSplittable, dependencies)
      EXCEPT !.sideEffects = sideEffects] :
     id \in {Null, <<"i">>}, idBase \in IdBases, uniqueKey \in UniqueKeys,
     other \in OtherFields, committed \in {Null, True},
     isBundleSplittable \in {Null, True, False},
     dependencies \in {Null, <<"Map", "d">>},
     sideEffects \in {Null, True, False}}

IdCallers == {"p", "q"}
\* The variable asset: empty before createAsset returned, then the Asset.
NoAsset == << >>

\* Caller c calls createAssetIdFromOptions with its options.
CreateAssetIdFromOptions(c) ==
  /\ Len(idResults["p"]) + Len(idResults["q"]) < MaxIdCalls
  /\ idResults' = [idResults EXCEPT ![c] = Append(@, createAssetIdFromOptions(idOptions[c]))]
  /\ UNCHANGED <<idOptions, assetOptions, asset>>
  /\ UNCHANGED notAssetVars

\* createAsset is called with assetOptions.
CreateAsset ==
  /\ asset = NoAsset
  /\ asset' = << createAsset(assetOptions) >>
  /\ UNCHANGED <<idOptions, idResults, assetOptions>>
  /\ UNCHANGED notAssetVars

(***************************************************************************)
(* The PostCSS transformer, transform (lines 51-165 of the transformer).   *)
(*                                                                         *)
(* A path or pattern is a string whose directory separator is the symbol   *)
(* "/" and whose last symbol is a file name or a glob.                     *)
(***************************************************************************)
DependencyMessage(file) ==
  [type |-> "dependency", file |-> file, dir |-> Null, glob |-> Null]
DirDependencyMessage(dir, globOrNull) ==
  [type |-> "dir-dependency", file |-> Null, dir |-> dir, glob |-> globOrNull]
\* A message of another type, such as a warning.
OtherMessage == [type |-> "warning", file |-> Null, dir |-> Null, glob |-> Null]

CssFiles == { <<"d", "/", "x">>, <<"d", "/", "y">>, <<"o">> }
Messages ==
  { DependencyMessage(<<"o">>), DependencyMessage(<<"d", "/", "x">>),
    DirDependencyMessage(<<"d">>, Null), DirDependencyMessage(<<"d">>, <<"x">>),
    OtherMessage }

RECURSIVE MessageListsUpTo(_)
MessageListsUpTo(n) ==
  IF n = 0 THEN { << >> }
  ELSE LET shorter == MessageListsUpTo(n - 1)
       IN shorter \cup {Append(l, e) : l \in {k \in shorter : Len(k) = n - 1},
                                       e \in Messages}

\* The class maps postcss-modules may hand to getJSON; NoClassMap when it
\* handed none (cssModules stays null).
ClassMap(entries) == [given |-> TRUE, entries |-> entries]
NoClassMap == [given |-> FALSE, entries |-> << >>]
ClassMaps == { ClassMap(<< >>), ClassMap(<< << <<"c">>, <<"_c_h">> >> >>), ClassMap(<< << <<"c">>, <<"_c_h">> >>, << <<"default">>, <<"_d_h">> >> >>) }

\* The symbol table of the asset handed to transform: cleared (exports
\* unknown), or already set by an earlier transformer.  symbolsBefore of the
\* run keeps the table the asset had when transform was called.
ClearedSymbols == [isCleared |-> TRUE, table |-> {}]
InitialSymbols == { ClearedSymbols, [isCleared |-> FALSE, table |-> {<< <<"c">>, <<"old">> >>}] }

\* `${msg.dir}/${msg.glob ?? '**/*'}`, line 118.
patternOf(msg) == msg.dir \o <<"/">> \o orDefault(msg.glob, <<"**/*">>)

\* glob of @parcel/utils with onlyFiles: the existing files of the pattern's
\* directory whose name the pattern's last symbol matches.
globMatches(pattern, file) ==
  /\ Len(file) >= 3 /\ Len(pattern) >= 3
  /\ SubSeq(file, 1, Len(file) - 1) = SubSeq(pattern, 1, Len(pattern) - 1)
  /\ pattern[Len(pattern)] \in {"**/*", file[Len(file)]}
glob(pattern, fs) == {file \in fs : globMatches(pattern, file)}

\* path.normalize on POSIX paths: repeated separators are collapsed.
RECURSIVE normalize(_)
normalize(file) ==
  IF Len(file) < 2 THEN file
  ELSE IF file[1] = "/" /\ file[2] = "/" THEN normalize(Tail(file))
  ELSE << file[1] >> \o normalize(Tail(file))

\* asset.invalidateOnFileChange(filePath), assetUtils.js 921-922.
invalidateOnFileChange(a, filePath) ==
  [a EXCEPT !.invalidateOnFileChange = @ \cup {filePath}]

\* Faulty variant: the pattern is not recorded.
invalidateOnFileCreateSkipped(a, pattern) == a

\* asset.invalidateOnFileCreate({glob: pattern}), assetUtils.js 923-924.
invalidateOnFileCreate(a, pattern) ==
  [a EXCEPT !.invalidateOnFileCreate = @ \cup {pattern}]

\* asset.symbols.ensure() and asset.symbols.set(k, v).
symbolsEnsure(a) ==
  [a EXCEPT !.symbols = IF @.isCleared THEN [isCleared |-> FALSE, table |-> {}] ELSE @]
symbolsSet(a, k, v) ==
  [a EXCEPT !.symbols.table = {e \in @ : e[1] # k} \cup {<<k, v>>}]

RECURSIVE symbolsSetAll(_, _)
symbolsSetAll(a, entries) ==
  IF entries = << >> THEN a
  ELSE symbolsSetAll(symbolsSet(a, Head(entries)[1], Head(entries)[2]), Tail(entries))

\* The loop of lines 113-125 from message i, up to the next await (the glob of
\* a 'dir-dependency' message) or the end of the messages.
RECURSIVE messageLoop(_, _, _)
messageLoop(messages, i, a) ==
  IF i > Len(messages) THEN [kind |-> "end", i |-> i, asset |-> a]
  ELSE IF messages[i].type = "dependency"
    THEN messageLoop(messages, i + 1, invalidateOnFileChange(a, messages[i].file))
  ELSE IF messages[i].type = "dir-dependency"
    THEN [kind |-> "glob", i |-> i, asset |-> a]
  ELSE messageLoop(messages, i + 1, a)

\* Lines 120-122: invalidateOnFileChange(path.normalize(file)) for every file.
RECURSIVE invalidateOnFiles(_, _)
invalidateOnFiles(a, matched) ==
  IF matched = {} THEN a
  ELSE LET file == CHOOSE f \in matched : TRUE
       IN invalidateOnFiles(invalidateOnFileChange(a, normalize(file)), matched \ {file})

\* Lines 134-151: the code of the companion JS asset.
companionCode(a) ==
  IF a.dependencies # {} THEN <<"module.exports = Object.assign">>
  ELSE <<"module.exports[className] = classNameHashed">>

\* Lines 127-164: the symbols are set and the assets returned.
withClassMapDefaultFirst(run, a) ==
  IF run.cssModules.given
    THEN symbolsSetAll(symbolsSet(symbolsEnsure(a), <<"default">>, <<"default">>),
                       run.cssModules.entries)
    ELSE a
withClassMap(run, a) ==
  IF run.cssModules.given
    THEN symbolsSet(symbolsSetAll(symbolsEnsure(a), run.cssModules.entries),
                    <<"default">>, <<"default">>)
    ELSE a
returnedAssets(run, a) ==
  IF run.cssModules.given
    THEN << [type |-> a.type, content |-> Null],
            [type |-> <<"js">>, content |-> companionCode(a)] >>
    ELSE << [type |-> a.type, content |-> Null] >>

\* The transform goes on from message i until it awaits a glob or returns.
ContinueTransform(run, a, i) ==
  LET r == messageLoop(run.messages, i, a)
  IN IF r.kind = "glob"
       THEN /\ transformRun' = [run EXCEPT !.pc = "glob", !.i = r.i]
            /\ cssAsset' = r.asset
       ELSE /\ transformRun' = [run EXCEPT !.pc = "done", !.i = r.i,
                                           !.assets = returnedAssets(run, r.asset)]
            /\ cssAsset' = withClassMap(run, r.asset)

\* transform is called (lines 51-56): without a config it returns [asset].
Transform ==
  /\ transformRun.pc = "idle"
  /\ cssAsset' = [cssAsset EXCEPT !.type = <<"css">>]
  /\ transformRun' =
       IF transformRun.config = "null"
         THEN [transformRun EXCEPT !.pc = "done",
                 !.assets = << [type |-> <<"css">>, content |-> Null] >>]
         ELSE [transformRun EXCEPT !.pc = "loadPostcss"]
  /\ UNCHANGED <<assetFs, globLog>>
  /\ UNCHANGED notCssVars

\* loadPostcss resolves (lines 57-75); asset.getAST() is awaited.
PostcssLoaded ==
  /\ transformRun.pc = "loadPostcss"
  /\ transformRun' = [transformRun EXCEPT !.pc = "getAST"]
  /\ UNCHANGED <<cssAsset, assetFs, globLog>>
  /\ UNCHANGED notCssVars

\* Lines 78-99: the composes declarations add their dependencies.
walkDecls(run, a) ==
  IF run.composes THEN [a EXCEPT !.dependencies = @ \cup {<<"i">>}] ELSE a

\* getAST resolves (lines 75-77) with the AST that parse returned (with a config
\* parse always returns one); with a dirty AST the code is not read.
ASTResolved ==
  /\ transformRun.pc = "getAST"
  /\ IF transformRun.isASTDirty
       THEN /\ transformRun' = [transformRun EXCEPT !.pc = "process"]
            /\ cssAsset' = walkDecls(transformRun, cssAsset)
       ELSE /\ transformRun' = [transformRun EXCEPT !.pc = "getCode"]
            /\ UNCHANGED cssAsset
  /\ UNCHANGED <<assetFs, globLog>>
  /\ UNCHANGED notCssVars

\* getCode resolves (lines 77-108).
CodeResolved ==
  /\ transformRun.pc = "getCode"
  /\ transformRun' = [transformRun EXCEPT !.pc = "process"]
  /\ cssAsset' = walkDecls(transformRun, cssAsset)
  /\ UNCHANGED <<assetFs, globLog>>
  /\ UNCHANGED notCssVars

\* postcss(plugins).process resolves (lines 105-125) with the plugins' messages;
\* postcss-modules, when configured, may have handed over a class map.
ProcessSettles(messages, classMap) ==
  /\ transformRun.pc = "process"
  /\ classMap.given => transformRun.config = "modules"
  /\ ContinueTransform([transformRun EXCEPT !.messages = messages, !.cssModules = classMap],
                       [cssAsset EXCEPT !.astSet = TRUE], 1)
  /\ UNCHANGED <<assetFs, globLog>>
  /\ UNCHANGED notCssVars

\* postcss(plugins).process rejects: transform throws.
ProcessRejects ==
  /\ transformRun.pc = "process"
  /\ transformRun' = [transformRun EXCEPT !.pc = "failed"]
  /\ UNCHANGED <<cssAsset, assetFs, globLog>>
  /\ UNCHANGED notCssVars

\* The glob of line 119 resolves (lines 119-125) and the loop goes on.
GlobSettles ==
  /\ transformRun.pc = "glob"
  /\ LET pattern == patternOf(transformRun.messages[transformRun.i])
         matched == glob(pattern, assetFs)
     IN /\ globLog' = Append(globLog, [pattern |-> pattern, existing |-> assetFs])
        /\ ContinueTransform(transformRun,
             invalidateOnFileCreate(invalidateOnFiles(cssAsset, matched), pattern),
             transformRun.i + 1)
  /\ UNCHANGED assetFs
  /\ UNCHANGED notCssVars

\* A file is created in asset.fs.
FileCreated(file) ==
  /\ file \notin assetFs
  /\ assetFs' = assetFs \cup {file}
  /\ UNCHANGED <<transformRun, cssAsset, globLog>>
  /\ UNCHANGED notCssVars

(***************************************************************************)
(* The asset graph's resolveAndTransform (spec 4.3, 7); of its code only   *)
(* the declarations of Dependency.isOptional are in assetUtils.js          *)
(* (704-705, 763-764).                                                     *)
(*                                                                         *)
(* The graph to build: the entry dependency leads to asset A, which        *)
(* declares d1 and d2; d1 leads to B, which declares d3; d2 and d3 lead to *)
(* C.  The transformer of B returns a companion asset B2 as well.          *)
(***************************************************************************)
Dependencies == {"entry", "d1", "d2", "d3"}

targetAssets(dep) ==
  CASE dep = "entry" -> {"A"}
    [] dep = "d1" -> {"B", "B2"}
    [] dep = "d2" -> {"C"}
    [] dep = "d3" -> {"C"}

declaredBy(assets) ==
  (IF "A" \in assets THEN {"d1", "d2"} ELSE {}) \cup (IF "B" \in assets THEN {"d3"} ELSE {})

\* Faulty variant: every resolution failure is fatal.
resolutionFailureFatal(dep) == "resolution failed"

\* What a dependency no Resolver found a target for becomes: unresolved when it
\* is optional, a build failure otherwise.
resolutionFailure(dep) ==
  IF depOptional[dep] THEN "unresolved" ELSE "resolution failed"

\* resolveAndTransform(dependency): the Resolver finds the target and the
\* Transformer returns its assets, each a node whose dependencies are then
\* pending; or no Resolver finds a target; or the Transformer fails.  An error
\* does not abort the work on the other dependencies.
ResolveAndTransform(dep, outcome) ==
  /\ buildResult = "running"
  /\ depStatus[dep] = "pending"
  /\ CASE outcome = "resolved" ->
            LET assets == graphAssets \cup targetAssets(dep)
            IN /\ graphAssets' = assets
               /\ depStatus' = [d \in Dependencies |->
                    IF d = dep THEN "resolved"
                    ELSE IF depStatus[d] = "undeclared" /\ d \in declaredBy(assets)
                      THEN "pending"
                    ELSE depStatus[d]]
       [] outcome = "not found" ->
            /\ depStatus' = [depStatus EXCEPT ![dep] = resolutionFailure(dep)]
            /\ UNCHANGED graphAssets
       [] outcome = "transform failed" ->
            /\ depStatus' = [depStatus EXCEPT ![dep] = "transform failed"]
            /\ UNCHANGED graphAssets
  /\ UNCHANGED <<depOptional, buildResult>>
  /\ UNCHANGED notBuildVars

\* No dependency is pending any more: the build result is a failure once any
\* error of a non-optional kind occurred.
FinishBuild ==
  /\ buildResult = "running"
  /\ \A d \in Dependencies : depStatus[d] # "pending"
  /\ buildResult' =
       IF \E d \in Dependencies : depStatus[d] \in {"resolution failed", "transform failed"}
         THEN "failure" ELSE "success"
  /\ UNCHANGED <<depOptional, depStatus, graphAssets>>
  /\ UNCHANGED notBuildVars

(***************************************************************************)
(* The bundle graph (spec 4.5); assetUtils.js holds its declarations only: *)
(* CreateBundleOpts 1221-1259, MutableBundleGraph 1343-1374, BundleGraph   *)
(* 1380-1440.                                                              *)
(*                                                                         *)
(* The assets and dependencies the Bundler works on: asset a1 (js) has a   *)
(* sync, a lazy and an excluded lazy dependency, each resolved to an asset.*)
(***************************************************************************)
None == "none"
BundleAssets == {"a1", "a2"}
assetType(a) == IF a = "a1" THEN "js" ELSE "css"
assetEnv(a) == IF a = "a1" THEN "browser" ELSE "node"

BundleDependencies == {"sync", "lazy", "excluded"}
priority(dep) == IF dep = "sync" THEN "sync" ELSE "lazy"
resolvedAsset(dep) == IF dep = "sync" THEN "a3" ELSE "a2"
sourceAsset(dep) == "a1"

\* isDependencySkipped(dependency), assetUtils.js 1407-1408.
isDependencySkipped(dep) == dep = "excluded"

\* The options given to createBundle: an entry asset and nothing else of the
\* triple (it is inferred), or no entry asset and any part of uniqueKey, type, env.
CreateBundleOpts ==
  {[entryAsset |-> a, uniqueKey |-> None, type |-> None, env |-> None, target |-> "t"] :
     a \in BundleAssets}
  \cup [entryAsset : {None}, uniqueKey : {None, "k"}, type : {None, "js"},
        env : {None, "node"}, target : {"t"}]

\* Faulty variant: the triple is not checked.
hasExplicitTripleUnchecked(opts) == TRUE

\* uniqueKey, type and env are all given.
hasExplicitTriple(opts) ==
  opts.uniqueKey # None /\ opts.type # None /\ opts.env # None

\* The bundle createBundle makes for valid options.
bundleFor(opts) ==
  IF opts.entryAsset # None
    THEN [id |-> "bundle:" \o opts.entryAsset, type |-> assetType(opts.entryAsset),
          env |-> assetEnv(opts.entryAsset), entryAsset |-> opts.entryAsset,
          target |-> opts.target]
    ELSE [id |-> "bundle:" \o opts.uniqueKey, type |-> opts.type, env |-> opts.env,
          entryAsset |-> None, target |-> opts.target]

\* The ids of the bundles createBundle can make.
BundleIds ==
  {bundleFor(opts).id :
     opts \in {o \in CreateBundleOpts : o.entryAsset # None \/ hasExplicitTriple(o)}}

\* createBundle(opts): rejected when there is neither an entry asset nor the
\* explicit triple.
CreateBundle(opts) ==
  /\ IF opts.entryAsset # None \/ hasExplicitTriple(opts)
       THEN /\ bundles' = bundles \cup {bundleFor(opts)}
            /\ lastCreateBundle' = [opts |-> opts, outcome |-> "created"]
       ELSE /\ lastCreateBundle' = [opts |-> opts, outcome |-> "rejected"]
            /\ UNCHANGED bundles
  /\ lastCreateBundle' # lastCreateBundle
  /\ UNCHANGED <<bundleGroups, internalized, contains, lastGraphCall>>
  /\ UNCHANGED notBundleVars

\* createBundleGroup(dependency, target): the edge Dependency -> Asset becomes
\* Dependency -> BundleGroup -> the bundles of the group.
CreateBundleGroup(dep, target) ==
  /\ \A g \in bundleGroups : g.dependency # dep
  /\ bundleGroups' = bundleGroups \cup
       {[dependency |-> dep, target |-> target, entryAssetId |-> resolvedAsset(dep)]}
  /\ UNCHANGED <<bundles, internalized, lastCreateBundle, contains, lastGraphCall>>
  /\ UNCHANGED notBundleVars

\* internalizeAsyncDependency(bundle, dependency): the async edge of the
\* dependency becomes an edge to the asset inside the bundle.
InternalizeAsyncDependency(bundleId, dep) ==
  /\ \E bundle \in bundles : bundle.id = bundleId
  /\ priority(dep) # "sync"
  /\ <<bundleId, dep>> \notin internalized
  /\ internalized' = internalized \cup {<<bundleId, dep>>}
  /\ UNCHANGED <<bundles, bundleGroups, lastCreateBundle, contains, lastGraphCall>>
  /\ UNCHANGED notBundleVars

\* resolveAsyncDependency(dependency, bundle), assetUtils.js 1396-1406: for an
\* async dependency that was not excluded, the asset when the edge was made
\* in-bundle for this bundle, else the bundle group created for it; else nothing.
Nothing == [type |-> "undefined", target |-> None, id |-> None]
AssetResult(a) == [type |-> "asset", target |-> None, id |-> a]
BundleGroupResult(g) == [type |-> "bundle_group", target |-> g.target, id |-> g.entryAssetId]
groupOf(dep) == CHOOSE g \in bundleGroups : g.dependency = dep

\* Faulty variant: an edge made in-bundle is not looked at.
resolveAsyncDependencyToGroupOnly(dep, bundleId) ==
  IF isDependencySkipped(dep) \/ priority(dep) = "sync" THEN Nothing
  ELSE IF \E g \in bundleGroups : g.dependency = dep
    THEN BundleGroupResult(groupOf(dep))
  ELSE Nothing

resolveAsyncDependency(dep, bundleId) ==
  IF isDependencySkipped(dep) \/ priority(dep) = "sync" THEN Nothing
  ELSE IF bundleId # None /\ <<bundleId, dep>> \in internalized
    THEN AssetResult(resolvedAsset(dep))
  ELSE IF \E g \in bundleGroups : g.dependency = dep
    THEN BundleGroupResult(groupOf(dep))
  ELSE Nothing

\* The "contains" edges (spec 4.5; addAssetGraphToBundle and
\* removeAssetGraphFromBundle are declared in assetUtils.js 1344-1349, 1365-1366).
\* shouldSkipDependency is the set of dependencies it is true of.
SkipPredicates == {{}, {"lazy", "excluded"}}
NoGraphCall == [op |-> "none", asset |-> None, bundle |-> None, skip |-> {}]

\* Faulty variant: the child nodes are left out.
subgraphRootOnly(root, skip) == {root}

\* The asset and all its child nodes, not descending through a skipped
\* dependency.  The graph is two levels deep.
subgraph(root, skip) ==
  {root} \cup {resolvedAsset(dep) :
                  dep \in {d \in BundleDependencies \ skip : sourceAsset(d) = root}}

\* addAssetGraphToBundle(asset, bundle, shouldSkipDependency).
AddAssetGraphToBundle(root, bundleId, skip) ==
  /\ \E bundle \in bundles : bundle.id = bundleId
  /\ lastGraphCall' = [op |-> "add", asset |-> root, bundle |-> bundleId, skip |-> skip]
  /\ contains' = contains \cup {<<bundleId, a>> : a \in subgraph(root, skip)}
  /\ <<contains, lastGraphCall>>' # <<contains, lastGraphCall>>
  /\ UNCHANGED <<bundles, bundleGroups, internalized, lastCreateBundle>>
  /\ UNCHANGED notBundleVars

\* removeAssetGraphFromBundle(asset, bundle): removes the "contains" edges from
\* the bundle to the nodes of the asset's subgraph.
RemoveAssetGraphFromBundle(root, bundleId) ==
  /\ \E bundle \in bundles : bundle.id = bundleId
  /\ lastGraphCall' = [op |-> "remove", asset |-> root, bundle |-> bundleId, skip |-> {}]
  /\ contains' = contains \ {<<bundleId, a>> : a \in subgraph(root, {})}
  /\ <<contains, lastGraphCall>>' # <<contains, lastGraphCall>>
  /\ UNCHANGED <<bundles, bundleGroups, internalized, lastCreateBundle>>
  /\ UNCHANGED notBundleVars

\* The createBundle calls of the runs that fill bundles: one with an entry
\* asset, one with the explicit triple, one with neither.
ContainBundleOpts ==
  {opts \in CreateBundleOpts :
     \/ opts.entryAsset = "a1"
     \/ opts.entryAsset = None /\ opts.uniqueKey = "k" /\ opts.env = "node"}

(***************************************************************************)
(* Symbol resolution (spec 4.4); assetUtils.js holds the declarations      *)
(* only: SymbolResolution 1265-1274, BundleGraph.resolveSymbol 1419-1434.  *)
(*                                                                         *)
(* A node is an (asset id, export symbol) pair.  An asset's symbol table   *)
(* declares the symbol, or the asset re-exports it through weak            *)
(* dependencies, or the whole table is cleared.                            *)
(***************************************************************************)
SymbolAssets == {"A", "B", "C"}
Nodes == {<<"A", "x">>, <<"A", "y">>, <<"B", "x">>, <<"B", "y">>, <<"C", "x">>}

\* SymbolResolution.symbol: void | null | false | Symbol.
SymbolUndefined == "undefined"
SymbolNull == "null"
SymbolFalse == "false"
localName(node) == node[1] \o "$" \o node[2]

NoBoundary == [given |-> FALSE, assets |-> {}]
Boundary(assets) == [given |-> TRUE, assets |-> assets]

\* Up to two re-export dependencies, and up to one.
ReexportLists(targets) ==
  {<< >>} \cup {<<t>> : t \in targets} \cup {<<t, u>> : t, u \in targets}
ReexportOption(targets) == {<< >>} \cup {<<t>> : t \in targets}

\* The graphs resolved: A and B re-export, C is a leaf that may declare x.
SymbolGraphs ==
  {[deps |-> [n \in Nodes |->
                IF n = <<"A", "x">> THEN ax
                ELSE IF n = <<"B", "x">> THEN bx
                ELSE IF n = <<"B", "y">> THEN by
                ELSE IF n = <<"A", "y">> THEN ay
                ELSE << >>],
    declares |-> decl, cleared |-> clr, skipped |-> skp, boundary |-> bnd] :
     ax \in ReexportLists({<<"B", "x">>, <<"B", "y">>, <<"C", "x">>}),
     bx \in ReexportOption({<<"A", "x">>, <<"A", "y">>, <<"C", "x">>}),
     by \in ReexportOption({<<"A", "x">>, <<"A", "y">>, <<"C", "x">>}),
     ay \in ReexportOption({<<"B", "y">>}),
     decl \in {{}, {<<"C", "x">>}},
     clr \in {{}, {"B"}, {"C"}},
     skp \in {{}, {<<<<"A", "x">>, 1>>}, {<<<<"B", "x">>, 1>>}},
     bnd \in {NoBoundary, Boundary({"A"}), Boundary({"A", "B"})}}

IdleGraph ==
  [deps |-> [n \in Nodes |-> << >>], declares |-> {}, cleared |-> {},
   skipped |-> {}, boundary |-> NoBoundary]

Idle == [status |-> "idle", asset |-> "none", symbol |-> SymbolUndefined]
Done(reached, symbol) == [status |-> "done", asset |-> reached, symbol |-> symbol]
Frame(node, phase, i) == [node |-> node, phase |-> phase, i |-> i]

Range(seq) == {seq[k] : k \in 1..Len(seq)}
Top == resolveStack[Len(resolveStack)]
Pop == SubSeq(resolveStack, 1, Len(resolveStack) - 1)

\* Faulty variant: no asset counts as outside the boundary.
outsideBoundaryNever(reached, boundary) == FALSE

\* boundary.hasAsset(asset) === false, assetUtils.js 1427-1428.
outsideBoundary(reached, boundary) ==
  boundary.given /\ reached \notin boundary.assets

\* Faulty variant: no visited-set.
alreadyVisitedNever(node, log) == FALSE

\* The visited-set keyed by (asset id, symbol).
alreadyVisited(node, log) == node \in Range(log)

\* resolveSymbol(asset, symbol, boundary): the query starts at (asset, symbol).
ResolveSymbol(node) ==
  /\ resolution.status = "idle"
  /\ resolveStack' = <<Frame(node, "enter", 1)>>
  /\ resolution' = [resolution EXCEPT !.status = "running", !.asset = node[1]]
  /\ UNCHANGED <<symbolGraph, visitLog>>
  /\ UNCHANGED notSymbolVars

\* A branch ended without a declaration: back to the asset that followed the
\* dependency, or, at the starting asset, the outcome "not found".
returnNotFound ==
  IF Len(resolveStack) = 1
    THEN /\ resolution' = Done(resolution.asset, SymbolUndefined)
         /\ resolveStack' = << >>
    ELSE /\ resolveStack' = Pop
         /\ UNCHANGED resolution

\* The traversal reaches an asset: outside the boundary it stops and names the
\* asset; a pair already looked up is not looked up again; else the asset's
\* own symbol table is consulted.
LookUp ==
  /\ resolution.status = "running"
  /\ Top.phase = "enter"
  /\ LET node == Top.node
         reached == node[1]
     IN  IF outsideBoundary(reached, symbolGraph.boundary)
           THEN /\ resolution' = Done(reached, SymbolUndefined)
                /\ resolveStack' = << >>
                /\ UNCHANGED visitLog
         ELSE IF alreadyVisited(node, visitLog)
           THEN /\ returnNotFound
                /\ UNCHANGED visitLog
         ELSE /\ visitLog' = Append(visitLog, node)
              /\ IF reached \in symbolGraph.cleared
                   THEN /\ resolution' = Done(reached, SymbolNull)
                        /\ resolveStack' = << >>
                 ELSE IF node \in symbolGraph.declares
                   THEN /\ resolution' = Done(reached, localName(node))
                        /\ resolveStack' = << >>
                 ELSE /\ resolveStack' = Append(Pop, Frame(node, "deps", 1))
                      /\ UNCHANGED resolution
  /\ UNCHANGED symbolGraph
  /\ UNCHANGED notSymbolVars

\* The next weak dependency re-exporting the symbol is followed into its
\* resolved target; a skipped dependency ends the query as "skipped".
FollowReexport ==
  /\ resolution.status = "running"
  /\ Top.phase = "deps"
  /\ Top.i <= Len(symbolGraph.deps[Top.node])
  /\ IF <<Top.node, Top.i>> \in symbolGraph.skipped
       THEN /\ resolution' = Done(Top.node[1], SymbolFalse)
            /\ resolveStack' = << >>
       ELSE /\ resolveStack' =
                 Append(Append(Pop, Frame(Top.node, "deps", Top.i + 1)),
                        Frame(symbolGraph.deps[Top.node][Top.i], "enter", 1))
            /\ UNCHANGED resolution
  /\ UNCHANGED <<symbolGraph, visitLog>>
  /\ UNCHANGED notSymbolVars

\* No dependency is left to follow.
ReexportsExhausted ==
  /\ resolution.status = "running"
  /\ Top.phase = "deps"
  /\ Top.i > Len(symbolGraph.deps[Top.node])
  /\ returnNotFound
  /\ UNCHANGED <<symbolGraph, visitLog>>
  /\ UNCHANGED notSymbolVars

\* The state after module load: both memos empty, nothing in flight.  File a is
\* readable and file b is not.
InitHash ==
  /\ files = [p \in FilePaths |-> IF p = <<"a">> THEN <<"x">> ELSE Unreadable]
  /\ hashCache = [p \in FilePaths |-> NoEntry]
  /\ hashPromises = << >>
  /\ hashCalls = << >>
  /\ build = 1
  /\ hashFileCount = [p \in FilePaths |-> 0]
  /\ ast = [v \in AssetValues |-> NoAST]
  /\ generateResults = [v \in AssetValues |-> NoEntry]
  /\ genRuns = << >>
  /\ genCallers = << >>
  /\ cache = [k \in CacheKeys |-> NoBlob]
  /\ cacheLog = {}
  /\ generateCount = [v \in AssetValues |-> 0]
  /\ mutations = 0
  /\ idOptions = [c \in IdCallers |-> AssetOptions(Null, Null, <<"a">>, <<"j">>, Null, Null, NoQuery,
                                                   CHOOSE o \in OtherFields : o.hash = Null,
                                                   Null, Null, Null)]
  /\ idResults = [c \in IdCallers |-> << >>]
  /\ assetOptions = AssetOptions(Null, Null, <<"a">>, <<"j">>, Null, Null, NoQuery,
                                 CHOOSE o \in OtherFields : o.hash = Null, Null, Null, Null)
  /\ asset = NoAsset
  /\ transformRun = [config |-> "null", isASTDirty |-> FALSE, composes |-> FALSE,
                     pc |-> "idle", messages |-> << >>, i |-> 0,
                     cssModules |-> NoClassMap, assets |-> << >>,
                     symbolsBefore |-> ClearedSymbols]
  /\ cssAsset = [type |-> <<"pcss">>, dependencies |-> {}, astSet |-> FALSE,
                 invalidateOnFileChange |-> {}, invalidateOnFileCreate |-> {},
                 symbols |-> ClearedSymbols]
  /\ assetFs = {}
  /\ globLog = << >>
  /\ depOptional = [d \in Dependencies |-> FALSE]
  /\ depStatus = [d \in Dependencies |-> IF d = "entry" THEN "pending" ELSE "undeclared"]
  /\ graphAssets = {}
  /\ buildResult = "running"
  /\ bundles = {}
  /\ bundleGroups = {}
  /\ internalized = {}
  /\ lastCreateBundle = [opts |-> None, outcome |-> "none"]
  /\ symbolGraph = IdleGraph
  /\ resolveStack = << >>
  /\ visitLog = << >>
  /\ resolution = Idle
  /\ contains = {}
  /\ lastGraphCall = NoGraphCall

\* The same, with the assets' ASTs: v2 holds one, and one of v1 and v3 holds none.
InitGen ==
  /\ ast \in {tree \in [AssetValues -> {NoAST, <<"t">>}] :
                tree["v2"] # NoAST /\ (tree["v1"] = NoAST) # (tree["v3"] = NoAST)}
  /\ generateResults = [v \in AssetValues |-> NoEntry]
  /\ genRuns = << >>
  /\ genCallers = << >>
  /\ cache = [k \in CacheKeys |-> NoBlob]
  /\ cacheLog = {}
  /\ generateCount = [v \in AssetValues |-> 0]
  /\ mutations = 0
  /\ files = [p \in FilePaths |-> IF p = <<"a">> THEN <<"x">> ELSE Unreadable]
  /\ hashCache = [p \in FilePaths |-> NoEntry]
  /\ hashPromises = << >>
  /\ hashCalls = << >>
  /\ build = 1
  /\ hashFileCount = [p \in FilePaths |-> 0]
  /\ idOptions = [c \in IdCallers |-> AssetOptions(Null, Null, <<"a">>, <<"j">>, Null, Null, NoQuery,
                                                   CHOOSE o \in OtherFields : o.hash = Null,
                                                   Null, Null, Null)]
  /\ idResults = [c \in IdCallers |-> << >>]
  /\ assetOptions = AssetOptions(Null, Null, <<"a">>, <<"j">>, Null, Null, NoQuery,
                                 CHOOSE o \in OtherFields : o.hash = Null, Null, Null, Null)
  /\ asset = NoAsset
  /\ transformRun = [config |-> "null", isASTDirty |-> FALSE, composes |-> FALSE,
                     pc |-> "idle", messages |-> << >>, i |-> 0,
                     cssModules |-> NoClassMap, assets |-> << >>,
                     symbolsBefore |-> ClearedSymbols]
  /\ cssAsset = [type |-> <<"pcss">>, dependencies |-> {}, astSet |-> FALSE,
                 invalidateOnFileChange |-> {}, invalidateOnFileCreate |-> {},
                 symbols |-> ClearedSymbols]
  /\ assetFs = {}
  /\ globLog = << >>
  /\ depOptional = [d \in Dependencies |-> FALSE]
  /\ depStatus = [d \in Dependencies |-> IF d = "entry" THEN "pending" ELSE "undeclared"]
  /\ graphAssets = {}
  /\ buildResult = "running"
  /\ bundles = {}
  /\ bundleGroups = {}
  /\ internalized = {}
  /\ lastCreateBundle = [opts |-> None, outcome |-> "none"]
  /\ symbolGraph = IdleGraph
  /\ resolveStack = << >>
  /\ visitLog = << >>
  /\ resolution = Idle
  /\ contains = {}
  /\ lastGraphCall = NoGraphCall

NextGen ==
  \/ \E value \in AssetValues : GenerateFromAST(value)
  \/ \E r \in 1..Len(genRuns) : GetASTResolves(r)
  \/ \E r \in 1..Len(genRuns), outcome \in {"fails", "no generate", "generate"} :
       LoadPluginSettles(r, outcome)
  \/ \E r \in 1..Len(genRuns), outcome \in {"throws", "content", "content and map"} :
       GenerateSettles(r, outcome)
  \/ \E r \in 1..Len(genRuns), ok \in BOOLEAN : SetStreamSettles(r, ok)
  \/ \E r \in 1..Len(genRuns), ok \in BOOLEAN : SetBlobSettles(r, ok)
  \/ \E r \in 1..Len(genRuns) : PromiseAllSettles(r)
  \/ \E value \in AssetValues, tree \in ASTs : SetAST(value, tree)

SpecHash == InitHash /\ [][NextHash]_vars

SpecGen == InitGen /\ [][NextGen]_vars

\* ParcelOptions objects that differ in the value of the env variable and of
\* the build option.
RunOptions ==
  {[env |-> [k \in EnvKeys |-> ev], option |-> [k \in OptionKeys |-> ov]] :
     ev \in {<<"v">>, <<"w">>}, ov \in {<<"p">>, <<"q">>}}
    \ {[env |-> [k \in EnvKeys |-> <<"w">>], option |-> [k \in OptionKeys |-> <<"p">>]]}

\* getInvalidationHash is called with one of the ParcelOptions objects.
GetInvalidationHashWith(invalidations, options) ==
  /\ HashInputsUsed + InputCost(invalidations) <= MaxDigestInputs
  /\ GetInvalidationHash(invalidations, options)

\* One build in which the calls are given differing ParcelOptions objects.
NextDigest ==
  \/ \E invalidations \in InvalidationLists[MaxDigestInputs - HashInputsUsed],
        options \in ParcelOptions :
       GetInvalidationHashWith(invalidations, options)
  \/ \E p \in 1..Len(hashPromises) : HashFileSettles(p)
  \/ \E c \in 1..Len(hashCalls) : ResumeHashCall(c)

SpecDigest == InitHash /\ [][NextDigest]_vars

\* Two callers, each with an options record of its own.
InitAssetId ==
  /\ idOptions \in [IdCallers -> IdOptions]
  /\ idResults = [c \in IdCallers |-> << >>]
  /\ assetOptions = AssetOptions(Null, Null, <<"a">>, <<"j">>, Null, Null, NoQuery,
                                 CHOOSE o \in OtherFields : o.hash = Null, Null, Null, Null)
  /\ asset = NoAsset
  /\ files = [p \in FilePaths |-> IF p = <<"a">> THEN <<"x">> ELSE Unreadable]
  /\ hashCache = [p \in FilePaths |-> NoEntry]
  /\ hashPromises = << >>
  /\ hashCalls = << >>
  /\ build = 1
  /\ hashFileCount = [p \in FilePaths |-> 0]
  /\ ast = [v \in AssetValues |-> NoAST]
  /\ generateResults = [v \in AssetValues |-> NoEntry]
  /\ genRuns = << >>
  /\ genCallers = << >>
  /\ cache = [k \in CacheKeys |-> NoBlob]
  /\ cacheLog = {}
  /\ generateCount = [v \in AssetValues |-> 0]
  /\ mutations = 0
  /\ transformRun = [config |-> "null", isASTDirty |-> FALSE, composes |-> FALSE,
                     pc |-> "idle", messages |-> << >>, i |-> 0,
                     cssModules |-> NoClassMap, assets |-> << >>,
                     symbolsBefore |-> ClearedSymbols]
  /\ cssAsset = [type |-> <<"pcss">>, dependencies |-> {}, astSet |-> FALSE,
                 invalidateOnFileChange |-> {}, invalidateOnFileCreate |-> {},
                 symbols |-> ClearedSymbols]
  /\ assetFs = {}
  /\ globLog = << >>
  /\ depOptional = [d \in Dependencies |-> FALSE]
  /\ depStatus = [d \in Dependencies |-> IF d = "entry" THEN "pending" ELSE "undeclared"]
  /\ graphAssets = {}
  /\ buildResult = "running"
  /\ bundles = {}
  /\ bundleGroups = {}
  /\ internalized = {}
  /\ lastCreateBundle = [opts |-> None, outcome |-> "none"]
  /\ symbolGraph = IdleGraph
  /\ resolveStack = << >>
  /\ visitLog = << >>
  /\ resolution = Idle
  /\ contains = {}
  /\ lastGraphCall = NoGraphCall

NextAssetId == \E c \in IdCallers : CreateAssetIdFromOptions(c)

SpecAssetId == InitAssetId /\ [][NextAssetId]_vars

\* One options record for createAsset.
InitCreateAsset ==
  /\ assetOptions \in CreateOptions
  /\ asset = NoAsset
  /\ idOptions = [c \in IdCallers |-> AssetOptions(Null, Null, <<"a">>, <<"j">>, Null, Null, NoQuery,
                                                   CHOOSE o \in OtherFields : o.hash = Null,
                                                   Null, Null, Null)]
  /\ idResults = [c \in IdCallers |-> << >>]
  /\ files = [p \in FilePaths |-> IF p = <<"a">> THEN <<"x">> ELSE Unreadable]
  /\ hashCache = [p \in FilePaths |-> NoEntry]
  /\ hashPromises = << >>
  /\ hashCalls = << >>
  /\ build = 1
  /\ hashFileCount = [p \in FilePaths |-> 0]
  /\ ast = [v \in AssetValues |-> NoAST]
  /\ generateResults = [v \in AssetValues |-> NoEntry]
  /\ genRuns = << >>
  /\ genCallers = << >>
  /\ cache = [k \in CacheKeys |-> NoBlob]
  /\ cacheLog = {}
  /\ generateCount = [v \in AssetValues |-> 0]
  /\ mutations = 0
  /\ transformRun = [config |-> "null", isASTDirty |-> FALSE, composes |-> FALSE,
                     pc |-> "idle", messages |-> << >>, i |-> 0,
                     cssModules |-> NoClassMap, assets |-> << >>,
                     symbolsBefore |-> ClearedSymbols]
  /\ cssAsset = [type |-> <<"pcss">>, dependencies |-> {}, astSet |-> FALSE,
                 invalidateOnFileChange |-> {}, invalidateOnFileCreate |-> {},
                 symbols |-> ClearedSymbols]
  /\ assetFs = {}
  /\ globLog = << >>
  /\ depOptional = [d \in Dependencies |-> FALSE]
  /\ depStatus = [d \in Dependencies |-> IF d = "entry" THEN "pending" ELSE "undeclared"]
  /\ graphAssets = {}
  /\ buildResult = "running"
  /\ bundles = {}
  /\ bundleGroups = {}
  /\ internalized = {}
  /\ lastCreateBundle = [opts |-> None, outcome |-> "none"]
  /\ symbolGraph = IdleGraph
  /\ resolveStack = << >>
  /\ visitLog = << >>
  /\ resolution = Idle
  /\ contains = {}
  /\ lastGraphCall = NoGraphCall

NextCreateAsset == CreateAsset

SpecCreateAsset == InitCreateAsset /\ [][NextCreateAsset]_vars

\* A transform call about to be made: with or without a PostCSS config, with or
\* without CSS modules, on an asset whose file system holds some of the files.
InitTransform ==
  /\ transformRun \in
       {[config |-> config, isASTDirty |-> dirty, composes |-> composes,
         pc |-> "idle", messages |-> << >>, i |-> 0,
         cssModules |-> NoClassMap, assets |-> << >>, symbolsBefore |-> symbols] :
          config \in {"null", "plain", "modules"}, dirty \in BOOLEAN,
          composes \in BOOLEAN, symbols \in InitialSymbols}
  /\ cssAsset = [type |-> <<"pcss">>, dependencies |-> {}, astSet |-> FALSE,
                 invalidateOnFileChange |-> {}, invalidateOnFileCreate |-> {},
                 symbols |-> transformRun.symbolsBefore]
  /\ assetFs \in SUBSET CssFiles
  /\ globLog = << >>
  /\ assetOptions = AssetOptions(Null, Null, <<"a">>, <<"j">>, Null, Null, NoQuery,
                                 CHOOSE o \in OtherFields : o.hash = Null, Null, Null, Null)
  /\ asset = NoAsset
  /\ idOptions = [c \in IdCallers |-> AssetOptions(Null, Null, <<"a">>, <<"j">>, Null, Null, NoQuery,
                                                   CHOOSE o \in OtherFields : o.hash = Null,
                                                   Null, Null, Null)]
  /\ idResults = [c \in IdCallers |-> << >>]
  /\ files = [p \in FilePaths |-> IF p = <<"a">> THEN <<"x">> ELSE Unreadable]
  /\ hashCache = [p \in FilePaths |-> NoEntry]
  /\ hashPromises = << >>
  /\ hashCalls = << >>
  /\ build = 1
  /\ hashFileCount = [p \in FilePaths |-> 0]
  /\ ast = [v \in AssetValues |-> NoAST]
  /\ generateResults = [v \in AssetValues |-> NoEntry]
  /\ genRuns = << >>
  /\ genCallers = << >>
  /\ cache = [k \in CacheKeys |-> NoBlob]
  /\ cacheLog = {}
  /\ generateCount = [v \in AssetValues |-> 0]
  /\ mutations = 0
  /\ depOptional = [d \in Dependencies |-> FALSE]
  /\ depStatus = [d \in Dependencies |-> IF d = "entry" THEN "pending" ELSE "undeclared"]
  /\ graphAssets = {}
  /\ buildResult = "running"
  /\ bundles = {}
  /\ bundleGroups = {}
  /\ internalized = {}
  /\ lastCreateBundle = [opts |-> None, outcome |-> "none"]
  /\ symbolGraph = IdleGraph
  /\ resolveStack = << >>
  /\ visitLog = << >>
  /\ resolution = Idle
  /\ contains = {}
  /\ lastGraphCall = NoGraphCall

NextTransform ==
  \/ Transform
  \/ PostcssLoaded
  \/ ASTResolved
  \/ CodeResolved
  \/ \E messages \in MessageListsUpTo(MaxMessages), classMap \in ClassMaps \cup {NoClassMap} :
       ProcessSettles(messages, classMap)
  \/ ProcessRejects
  \/ GlobSettles
  \/ \E file \in CssFiles : FileCreated(file)

SpecTransform == InitTransform /\ [][NextTransform]_vars

\* A build about to start, for every choice of the optional dependencies.
InitBuild ==
  /\ depOptional \in [Dependencies -> BOOLEAN]
  /\ depStatus = [d \in Dependencies |-> IF d = "entry" THEN "pending" ELSE "undeclared"]
  /\ graphAssets = {}
  /\ buildResult = "running"
  /\ files = [p \in FilePaths |-> IF p = <<"a">> THEN <<"x">> ELSE Unreadable]
  /\ hashCache = [p \in FilePaths |-> NoEntry]
  /\ hashPromises = << >>
  /\ hashCalls = << >>
  /\ build = 1
  /\ hashFileCount = [p \in FilePaths |-> 0]
  /\ ast = [v \in AssetValues |-> NoAST]
  /\ generateResults = [v \in AssetValues |-> NoEntry]
  /\ genRuns = << >>
  /\ genCallers = << >>
  /\ cache = [k \in CacheKeys |-> NoBlob]
  /\ cacheLog = {}
  /\ generateCount = [v \in AssetValues |-> 0]
  /\ mutations = 0
  /\ idOptions = [c \in IdCallers |-> AssetOptions(Null, Null, <<"a">>, <<"j">>, Null, Null, NoQuery,
                                                   CHOOSE o \in OtherFields : o.hash = Null,
                                                   Null, Null, Null)]
  /\ idResults = [c \in IdCallers |-> << >>]
  /\ assetOptions = AssetOptions(Null, Null, <<"a">>, <<"j">>, Null, Null, NoQuery,
                                 CHOOSE o \in OtherFields : o.hash = Null, Null, Null, Null)
  /\ asset = NoAsset
  /\ transformRun = [config |-> "null", isASTDirty |-> FALSE, composes |-> FALSE,
                     pc |-> "idle", messages |-> << >>, i |-> 0,
                     cssModules |-> NoClassMap, assets |-> << >>,
                     symbolsBefore |-> ClearedSymbols]
  /\ cssAsset = [type |-> <<"pcss">>, dependencies |-> {}, astSet |-> FALSE,
                 invalidateOnFileChange |-> {}, invalidateOnFileCreate |-> {},
                 symbols |-> ClearedSymbols]
  /\ assetFs = {}
  /\ globLog = << >>
  /\ bundles = {}
  /\ bundleGroups = {}
  /\ internalized = {}
  /\ lastCreateBundle = [opts |-> None, outcome |-> "none"]
  /\ symbolGraph = IdleGraph
  /\ resolveStack = << >>
  /\ visitLog = << >>
  /\ resolution = Idle
  /\ contains = {}
  /\ lastGraphCall = NoGraphCall

NextBuild ==
  \/ \E dep \in Dependencies, outcome \in {"resolved", "not found", "transform failed"} :
       ResolveAndTransform(dep, outcome)
  \/ FinishBuild

SpecBuild == InitBuild /\ [][NextBuild]_vars

\* The bundling phase about to start: no bundle and no bundle group yet.
InitBundle ==
  /\ bundles = {}
  /\ bundleGroups = {}
  /\ internalized = {}
  /\ lastCreateBundle = [opts |-> None, outcome |-> "none"]
  /\ files = [p \in FilePaths |-> IF p = <<"a">> THEN <<"x">> ELSE Unreadable]
  /\ hashCache = [p \in FilePaths |-> NoEntry]
  /\ hashPromises = << >>
  /\ hashCalls = << >>
  /\ build = 1
  /\ hashFileCount = [p \in FilePaths |-> 0]
  /\ ast = [v \in AssetValues |-> NoAST]
  /\ generateResults = [v \in AssetValues |-> NoEntry]
  /\ genRuns = << >>
  /\ genCallers = << >>
  /\ cache = [k \in CacheKeys |-> NoBlob]
  /\ cacheLog = {}
  /\ generateCount = [v \in AssetValues |-> 0]
  /\ mutations = 0
  /\ idOptions = [c \in IdCallers |-> AssetOptions(Null, Null, <<"a">>, <<"j">>, Null, Null, NoQuery,
                                                   CHOOSE o \in OtherFields : o.hash = Null,
                                                   Null, Null, Null)]
  /\ idResults = [c \in IdCallers |-> << >>]
  /\ assetOptions = AssetOptions(Null, Null, <<"a">>, <<"j">>, Null, Null, NoQuery,
                                 CHOOSE o \in OtherFields : o.hash = Null, Null, Null, Null)
  /\ asset = NoAsset
  /\ transformRun = [config |-> "null", isASTDirty |-> FALSE, composes |-> FALSE,
                     pc |-> "idle", messages |-> << >>, i |-> 0,
                     cssModules |-> NoClassMap, assets |-> << >>,
                     symbolsBefore |-> ClearedSymbols]
  /\ cssAsset = [type |-> <<"pcss">>, dependencies |-> {}, astSet |-> FALSE,
                 invalidateOnFileChange |-> {}, invalidateOnFileCreate |-> {},
                 symbols |-> ClearedSymbols]
  /\ assetFs = {}
  /\ globLog = << >>
  /\ depOptional = [d \in Dependencies |-> FALSE]
  /\ depStatus = [d \in Dependencies |-> IF d = "entry" THEN "pending" ELSE "undeclared"]
  /\ graphAssets = {}
  /\ buildResult = "running"
  /\ symbolGraph = IdleGraph
  /\ resolveStack = << >>
  /\ visitLog = << >>
  /\ resolution = Idle
  /\ contains = {}
  /\ lastGraphCall = NoGraphCall

NextBundle ==
  \/ \E opts \in CreateBundleOpts : CreateBundle(opts)
  \/ \E dep \in BundleDependencies : CreateBundleGroup(dep, "t")
  \/ \E bundleId \in BundleIds, dep \in BundleDependencies :
       InternalizeAsyncDependency(bundleId, dep)

SpecBundle == InitBundle /\ [][NextBundle]_vars

\* The bundle graph is built; no symbol query was made yet.
InitSymbol ==
  /\ symbolGraph \in SymbolGraphs
  /\ resolveStack = << >>
  /\ visitLog = << >>
  /\ resolution = Idle
  /\ files = [p \in FilePaths |-> IF p = <<"a">> THEN <<"x">> ELSE Unreadable]
  /\ hashCache = [p \in FilePaths |-> NoEntry]
  /\ hashPromises = << >>
  /\ hashCalls = << >>
  /\ build = 1
  /\ hashFileCount = [p \in FilePaths |-> 0]
  /\ ast = [v \in AssetValues |-> NoAST]
  /\ generateResults = [v \in AssetValues |-> NoEntry]
  /\ genRuns = << >>
  /\ genCallers = << >>
  /\ cache = [k \in CacheKeys |-> NoBlob]
  /\ cacheLog = {}
  /\ generateCount = [v \in AssetValues |-> 0]
  /\ mutations = 0
  /\ idOptions = [c \in IdCallers |-> AssetOptions(Null, Null, <<"a">>, <<"j">>, Null, Null, NoQuery,
                                                   CHOOSE o \in OtherFields : o.hash = Null,
                                                   Null, Null, Null)]
  /\ idResults = [c \in IdCallers |-> << >>]
  /\ assetOptions = AssetOptions(Null, Null, <<"a">>, <<"j">>, Null, Null, NoQuery,
                                 CHOOSE o \in OtherFields : o.hash = Null, Null, Null, Null)
  /\ asset = NoAsset
  /\ transformRun = [config |-> "null", isASTDirty |-> FALSE, composes |-> FALSE,
                     pc |-> "idle", messages |-> << >>, i |-> 0,
                     cssModules |-> NoClassMap, assets |-> << >>,
                     symbolsBefore |-> ClearedSymbols]
  /\ cssAsset = [type |-> <<"pcss">>, dependencies |-> {}, astSet |-> FALSE,
                 invalidateOnFileChange |-> {}, invalidateOnFileCreate |-> {},
                 symbols |-> ClearedSymbols]
  /\ assetFs = {}
  /\ globLog = << >>
  /\ depOptional = [d \in Dependencies |-> FALSE]
  /\ depStatus = [d \in Dependencies |-> IF d = "entry" THEN "pending" ELSE "undeclared"]
  /\ graphAssets = {}
  /\ buildResult = "running"
  /\ bundles = {}
  /\ bundleGroups = {}
  /\ internalized = {}
  /\ lastCreateBundle = [opts |-> None, outcome |-> "none"]
  /\ contains = {}
  /\ lastGraphCall = NoGraphCall

NextSymbol ==
  \/ ResolveSymbol(<<"A", "x">>)
  \/ LookUp
  \/ FollowReexport
  \/ ReexportsExhausted

SpecSymbol == InitSymbol /\ [][NextSymbol]_vars

\* A query that was started is run to its end.
SpecSymbolLive == SpecSymbol /\ WF_vars(NextSymbol)

\* The bundling phase about to start: no bundle holds an asset.
InitContain ==
  /\ files = [p \in FilePaths |-> IF p = <<"a">> THEN <<"x">> ELSE Unreadable]
  /\ hashCache = [p \in FilePaths |-> NoEntry]
  /\ hashPromises = << >>
  /\ hashCalls = << >>
  /\ build = 1
  /\ hashFileCount = [p \in FilePaths |-> 0]
  /\ ast = [v \in AssetValues |-> NoAST]
  /\ generateResults = [v \in AssetValues |-> NoEntry]
  /\ genRuns = << >>
  /\ genCallers = << >>
  /\ cache = [k \in CacheKeys |-> NoBlob]
  /\ cacheLog = {}
  /\ generateCount = [v \in AssetValues |-> 0]
  /\ mutations = 0
  /\ idOptions = [c \in IdCallers |-> AssetOptions(Null, Null, <<"a">>, <<"j">>, Null, Null, NoQuery,
                                                   CHOOSE o \in OtherFields : o.hash = Null,
                                                   Null, Null, Null)]
  /\ idResults = [c \in IdCallers |-> << >>]
  /\ assetOptions = AssetOptions(Null, Null, <<"a">>, <<"j">>, Null, Null, NoQuery,
                                 CHOOSE o \in OtherFields : o.hash = Null, Null, Null, Null)
  /\ asset = NoAsset
  /\ transformRun = [config |-> "null", isASTDirty |-> FALSE, composes |-> FALSE,
                     pc |-> "idle", messages |-> << >>, i |-> 0,
                     cssModules |-> NoClassMap, assets |-> << >>,
                     symbolsBefore |-> ClearedSymbols]
  /\ cssAsset = [type |-> <<"pcss">>, dependencies |-> {}, astSet |-> FALSE,
                 invalidateOnFileChange |-> {}, invalidateOnFileCreate |-> {},
                 symbols |-> ClearedSymbols]
  /\ assetFs = {}
  /\ globLog = << >>
  /\ depOptional = [d \in Dependencies |-> FALSE]
  /\ depStatus = [d \in Dependencies |-> IF d = "entry" THEN "pending" ELSE "undeclared"]
  /\ graphAssets = {}
  /\ buildResult = "running"
  /\ bundles = {}
  /\ bundleGroups = {}
  /\ internalized = {}
  /\ lastCreateBundle = [opts |-> None, outcome |-> "none"]
  /\ symbolGraph = IdleGraph
  /\ resolveStack = << >>
  /\ visitLog = << >>
  /\ resolution = Idle
  /\ contains = {}
  /\ lastGraphCall = NoGraphCall

NextContain ==
  \/ \E opts \in ContainBundleOpts : CreateBundle(opts)
  \/ \E root \in BundleAssets \cup {"a3"}, bundleId \in BundleIds, skip \in SkipPredicates :
       AddAssetGraphToBundle(root, bundleId, skip)
  \/ \E root \in BundleAssets \cup {"a3"}, bundleId \in BundleIds :
       RemoveAssetGraphFromBundle(root, bundleId)

SpecContain == InitContain /\ [][NextContain]_vars

\* One build during which the files change under it.
NextMemo ==
  \/ \E invalidations \in InvalidationLists[MaxDigestInputs - HashInputsUsed] :
       GetInvalidationHashWith(invalidations, fullOptions)
  \/ \E p \in 1..Len(hashPromises) : HashFileSettles(p)
  \/ \E c \in 1..Len(hashCalls) : ResumeHashCall(c)
  \/ \E filePath \in FilePaths, content \in {<<"x">>, Unreadable} :
       FileChanges(filePath, content)

SpecMemo == InitHash /\ [][NextMemo]_vars

\* The lists of at most n entries of known kinds.
KnownLists(n) ==
  {l \in InvalidationLists[n] : \A k \in 1..Len(l) : l[k].type \in KnownTypes}

\* The next build starts between two runs.
RebuildBetweenRuns(filePath, content) ==
  /\ HashInputsUsed < MaxDigestInputs
  /\ Rebuild(filePath, content)

\* Runs of getInvalidationHash in builds that differ in files, environment
\* and options.
NextRuns ==
  \/ \E invalidations \in KnownLists(MaxDigestInputs - HashInputsUsed),
        options \in RunOptions :
       GetInvalidationHashWith(invalidations, options)
  \/ \E p \in 1..Len(hashPromises) : HashFileSettles(p)
  \/ \E c \in 1..Len(hashCalls) : ResumeHashCall(c)
  \/ \E filePath \in FilePaths : RebuildBetweenRuns(filePath, <<"y">>)

SpecRuns == InitHash /\ [][NextRuns]_vars

\* Lists of env entries over two keys, and ParcelOptions objects whose env
\* gives them values that may hold the characters of a key and a colon.
EnvLists ==
  {<<EnvInvalidation(<<"a">>)>>,
   <<EnvInvalidation(<<"a">>), EnvInvalidation(<<"b">>)>>,
   <<EnvInvalidation(<<"b">>), EnvInvalidation(<<"a">>)>>}
EnvValues == {<< >>, <<"b", ":">>, <<"x">>}
EnvOptions ==
  {[env |-> [k \in {<<"a">>, <<"b">>} |-> IF k = <<"a">> THEN va ELSE vb],
    option |-> [k \in {} |-> << >>]] : va \in EnvValues, vb \in EnvValues}
    \cup {bareOptions}

GetInvalidationHashOfEnv(invalidations, options) ==
  /\ Len(hashCalls) < MaxEnvCalls
  /\ GetInvalidationHash(invalidations, options)

NextEnv ==
  \E invalidations \in EnvLists, options \in EnvOptions :
    GetInvalidationHashOfEnv(invalidations, options)

SpecEnv == InitHash /\ [][NextEnv]_vars

\* Option records that differ in the query only: no query, and queries whose
\* keys were inserted in one order or the other.
OrderedQueries ==
  {NoQuery,
   Query(<< <<<<"a">>, <<"v">>>> >>),
   Query(<< <<<<"a">>, <<"v">>>>, <<<<"b">>, <<"w">>>> >>),
   Query(<< <<<<"b">>, <<"w">>>>, <<<<"a">>, <<"v">>>> >>),
   Query(<< <<<<"a">>, <<"w">>>>, <<<<"b">>, <<"v">>>> >>),
   Query(<< <<<<"b">>, <<"v">>>>, <<<<"a">>, <<"w">>>> >>)}
QueryOptions ==
  {AssetOptions(Null, Null, <<"a">>, <<"j">>, Null, pipeline, query,
                CHOOSE o \in OtherFields : o.hash = Null, Null, Null, Null) :
     pipeline \in Pipelines, query \in OrderedQueries}

InitQuery ==
  /\ idOptions \in [IdCallers -> QueryOptions]
  /\ idResults = [c \in IdCallers |-> << >>]
  /\ assetOptions = AssetOptions(Null, Null, <<"a">>, <<"j">>, Null, Null, NoQuery,
                                 CHOOSE o \in OtherFields : o.hash = Null, Null, Null, Null)
  /\ asset = NoAsset
  /\ files = [p \in FilePaths |-> IF p = <<"a">> THEN <<"x">> ELSE Unreadable]
  /\ hashCache = [p \in FilePaths |-> NoEntry]
  /\ hashPromises = << >>
  /\ hashCalls = << >>
  /\ build = 1
  /\ hashFileCount = [p \in FilePaths |-> 0]
  /\ ast = [v \in AssetValues |-> NoAST]
  /\ generateResults = [v \in AssetValues |-> NoEntry]
  /\ genRuns = << >>
  /\ genCallers = << >>
  /\ cache = [k \in CacheKeys |-> NoBlob]
  /\ cacheLog = {}
  /\ generateCount = [v \in AssetValues |-> 0]
  /\ mutations = 0
  /\ transformRun = [config |-> "null", isASTDirty |-> FALSE, composes |-> FALSE,
                     pc |-> "idle", messages |-> << >>, i |-> 0,
                     cssModules |-> NoClassMap, assets |-> << >>,
                     symbolsBefore |-> ClearedSymbols]
  /\ cssAsset = [type |-> <<"pcss">>, dependencies |-> {}, astSet |-> FALSE,
                 invalidateOnFileChange |-> {}, invalidateOnFileCreate |-> {},
                 symbols |-> ClearedSymbols]
  /\ assetFs = {}
  /\ globLog = << >>
  /\ depOptional = [d \in Dependencies |-> FALSE]
  /\ depStatus = [d \in Dependencies |-> IF d = "entry" THEN "pending" ELSE "undeclared"]
  /\ graphAssets = {}
  /\ buildResult = "running"
  /\ bundles = {}
  /\ bundleGroups = {}
  /\ internalized = {}
  /\ lastCreateBundle = [opts |-> None, outcome |-> "none"]
  /\ symbolGraph = IdleGraph
  /\ resolveStack = << >>
  /\ visitLog = << >>
  /\ resolution = Idle
  /\ contains = {}
  /\ lastGraphCall = NoGraphCall

SpecQuery == InitQuery /\ [][NextAssetId]_vars

(***************************************************************************)
(* Properties of generation, checked under SpecGen.                        *)
(***************************************************************************)
Callers == 1..Len(genCallers)
CallersOf(value) == {i \in Callers : genCallers[i].value = value}
RunOf(i) == genRuns[genCallers[i].output]
Settled(run) == run.pc \in {"resolved", "rejected"}
ReachedGenerate(run) ==
  \/ run.pc \in {"generate", "cacheWrite", "resolved"}
  \/ run.pc = "rejected" /\ run.error \in {<<"generate threw">>, <<"cache write failed">>}
\* Every call for the value was issued before the value's generation settled.
AllConcurrent(value) ==
  CallersOf(value) # {} /\ \A i \in CallersOf(value) : ~genCallers[i].settledAtCall

\* C1 as stated: N >= 1 concurrent generateFromAST calls for one Asset value
\* invoke the plugin's generate exactly once (seen once the calls have settled)
\* and every caller receives the result of that invocation.
C1_GenerateExactlyOnce ==
  \A value \in AssetValues :
    (AllConcurrent(value) /\ \A i \in CallersOf(value) : Settled(RunOf(i)))
      => /\ generateCount[value] = 1
         /\ \A i, j \in CallersOf(value) : genCallers[i].output = genCallers[j].output

\* C1 amended: N >= 1 concurrent generateFromAST calls for one Asset value share
\* one _generateFromAST run and its promise; generate is invoked at most once,
\* exactly once if that run gets as far as line 150 and not at all if it fails
\* before (no AST, plugin not loaded, no generate method); a resolved caller
\* receives what that invocation generated.
C1_ConcurrentCallsShareOneRun ==
  \A value \in AssetValues :
    AllConcurrent(value)
      => /\ \A i, j \in CallersOf(value) : genCallers[i].output = genCallers[j].output
         /\ Cardinality({r \in 1..Len(genRuns) : genRuns[r].value = value}) = 1
         /\ \A i \in CallersOf(value) :
              /\ generateCount[value] = IF ReachedGenerate(RunOf(i)) THEN 1 ELSE 0
              /\ RunOf(i).pc = "resolved"
                   => RunOf(i).content = generatedContent(RunOf(i).tree)

\* Three concurrent callers of one value, resolved by a single generate call.
C1_Witness ==
  \E value \in AssetValues :
    /\ AllConcurrent(value)
    /\ Cardinality(CallersOf(value)) >= 3
    /\ \A i \in CallersOf(value) : RunOf(i).pc = "resolved"
    /\ generateCount[value] = 1

\* C2: over any sequence of generateFromAST calls the plugin's generate runs at
\* most once per Asset value: every call for a value is handed the promise of the
\* value's only run, so a call made after the AST changed (same Asset value)
\* gets the output generated from the earlier AST, not from the current one.
C2_AtMostOncePerValue ==
  /\ \A value \in AssetValues :
       /\ generateCount[value] <= 1
       /\ Cardinality({r \in 1..Len(genRuns) : genRuns[r].value = value}) <= 1
  /\ \A i \in Callers :
       /\ RunOf(i).value = genCallers[i].value
       /\ genCallers[i].output = generateResults[genCallers[i].value]
       /\ (RunOf(i).pc = "resolved" /\ genCallers[i].treeAtCall # RunOf(i).tree)
            => /\ RunOf(i).content = generatedContent(RunOf(i).tree)
               /\ RunOf(i).content # generatedContent(genCallers[i].treeAtCall)

\* A call made after the generation resolved and after setAST changed the AST.
C2_Witness ==
  \E i \in Callers :
    /\ genCallers[i].settledAtCall
    /\ RunOf(i).pc = "resolved"
    /\ genCallers[i].treeAtCall # RunOf(i).tree
    /\ generateCount[genCallers[i].value] = 1

\* C3 as stated: de-duplication is keyed by asset identity, so two calls in
\* flight at the same time for the same asset id and content key await the same
\* computation, also when they hold distinct Asset value objects.
C3_KeyedByAssetId ==
  \A i, j \in Callers :
    ( /\ assetId(genCallers[i].value) = assetId(genCallers[j].value)
      /\ contentKey(genCallers[i].value) = contentKey(genCallers[j].value)
      /\ ~Settled(RunOf(i)) /\ ~Settled(RunOf(j)) )
      => genCallers[i].output = genCallers[j].output

\* C3 amended: de-duplication is keyed by the Asset value object: two calls
\* await the same computation exactly when they hold the same Asset value object;
\* callers holding distinct objects of the same asset id and content key each get
\* a computation of their own, which invokes generate on its own.
C3_KeyedByValueObject ==
  /\ \A i, j \in Callers :
       (genCallers[i].output = genCallers[j].output)
         <=> (genCallers[i].value = genCallers[j].value)
  /\ \A value \in AssetValues :
       generateCount[value] =
         Cardinality({r \in 1..Len(genRuns) :
                        genRuns[r].value = value /\ ReachedGenerate(genRuns[r])})

\* Two objects of the same asset, both in flight, generate called for each.
C3_Witness ==
  \E i, j \in Callers :
    /\ genCallers[i].value # genCallers[j].value
    /\ assetId(genCallers[i].value) = assetId(genCallers[j].value)
    /\ RunOf(i).pc = "generate" /\ RunOf(j).pc = "generate"
    /\ generateCount[genCallers[i].value] = 1
    /\ generateCount[genCallers[j].value] = 1

\* A run that is neither resolved nor rejected can take its next step.
RunCanStep(r) ==
  CASE genRuns[r].pc = "getAST" -> ENABLED GetASTResolves(r)
    [] genRuns[r].pc = "loadPlugin" -> ENABLED LoadPluginSettles(r, "generate")
    [] genRuns[r].pc = "generate" -> ENABLED GenerateSettles(r, "content")
    [] genRuns[r].pc = "cacheWrite" ->
         \/ ENABLED PromiseAllSettles(r)
         \/ ENABLED SetStreamSettles(r, TRUE)
         \/ ENABLED SetBlobSettles(r, TRUE)
    [] OTHER -> TRUE

\* C4: generations of distinct assets proceed in parallel: a generateFromAST
\* call for a value that has no generation yet starts one of its own in the same
\* step, whatever other generations are in flight, and a generation in flight is
\* never kept from its next step by another one.
C4_DistinctAssetsInParallel ==
  /\ [](\A r \in 1..Len(genRuns) : RunCanStep(r))
  /\ [][\A value \in AssetValues :
          ( /\ Len(genCallers') = Len(genCallers) + 1
            /\ genCallers'[Len(genCallers')].value = value
            /\ \A r \in 1..Len(genRuns) : genRuns[r].value # value )
            => /\ Len(genRuns') = Len(genRuns) + 1
               /\ genRuns'[Len(genRuns')] = NewRun(value)
               /\ genCallers'[Len(genCallers')].output = Len(genRuns')]_vars

\* Asset b was requested after asset a and has resolved while a's generation has
\* not taken a step.
C4_Witness ==
  \E ra, rb \in 1..Len(genRuns) :
    /\ ra < rb
    /\ assetId(genRuns[ra].value) # assetId(genRuns[rb].value)
    /\ genRuns[ra].pc = "getAST"
    /\ genRuns[rb].pc = "resolved"

\* C5: a generation has resolved only after its content was stored under the
\* asset's contentKey and, when it produced a map, the map under the asset's
\* mapKey; a generation that produced no map writes nothing under mapKey.
C5_ResolvedAfterCacheWrites ==
  /\ \A r \in 1..Len(genRuns) :
       LET run == genRuns[r]
       IN /\ run.pc = "resolved"
               => /\ <<contentKey(run.value), run.content>> \in cacheLog
                  /\ run.map # NoMap => <<mapKey(run.value), run.map>> \in cacheLog
          /\ run.map = NoMap => run.mapWrite = "none"
  /\ \A w \in cacheLog :
       w[1] \in {mapKey(v) : v \in AssetValues}
         => \E r \in 1..Len(genRuns) :
              /\ mapKey(genRuns[r].value) = w[1]
              /\ genRuns[r].map = w[2]
              /\ genRuns[r].map # NoMap

\* One generation resolved with a map and one resolved without.
C5_Witness ==
  \E r1, r2 \in 1..Len(genRuns) :
    /\ genRuns[r1].pc = "resolved" /\ genRuns[r1].map # NoMap
    /\ genRuns[r2].pc = "resolved" /\ genRuns[r2].map = NoMap
    /\ cache[mapKey(genRuns[r2].value)] = NoBlob

(***************************************************************************)
(* Properties of the invalidation digest, checked under SpecHash.          *)
(***************************************************************************)
HashCallIds == 1..Len(hashCalls)
IssuedInCurrentBuild(c) == hashCalls[c].build = build
HasUnknownKind(list) == \E k \in 1..Len(list) : list[k].type \notin KnownTypes
Occurrences(list, e) == Cardinality({k \in 1..Len(list) : list[k] = e})
IsPermutation(l1, l2) ==
  Len(l1) = Len(l2) /\ \A e \in Invalidations : Occurrences(l1, e) = Occurrences(l2, e)

\* C6: two getInvalidationHash calls whose lists are permutations of each other,
\* evaluated against the same file contents, environment and options (both issued
\* in the current build), settle alike and, when they resolve, with the same digest.
C6_PermutationsSameDigest ==
  \A c, d \in HashCallIds :
    ( /\ IssuedInCurrentBuild(c) /\ IssuedInCurrentBuild(d)
      /\ IsPermutation(hashCalls[c].invalidations, hashCalls[d].invalidations)
      /\ hashCalls[c].status # "pending" /\ hashCalls[d].status # "pending" )
      => /\ hashCalls[c].status = hashCalls[d].status
         /\ hashCalls[c].result = hashCalls[d].result

\* Two resolved calls with the same entries in different orders.
C6_Witness ==
  \E c, d \in HashCallIds :
    /\ IssuedInCurrentBuild(c) /\ IssuedInCurrentBuild(d)
    /\ hashCalls[c].invalidations # hashCalls[d].invalidations
    /\ IsPermutation(hashCalls[c].invalidations, hashCalls[d].invalidations)
    /\ hashCalls[c].status = "resolved" /\ hashCalls[d].status = "resolved"
    /\ hashCalls[c].awaited # {}
    /\ hashCalls[c].result = hashCalls[d].result

\* C7: getInvalidationHash of the empty list returns '', which is not
\* hashString of anything, and the call reads no file and leaves the memo as it was.
C7_EmptyListEmptyDigest ==
  /\ [](\A c \in HashCallIds :
          hashCalls[c].invalidations = << >>
            => /\ hashCalls[c].status = "resolved"
               /\ hashCalls[c].result = << >>
               /\ hashCalls[c].result # hashString(<< >>)
               /\ hashCalls[c].awaited = {})
  /\ [][( /\ Len(hashCalls') = Len(hashCalls) + 1
          /\ hashCalls'[Len(hashCalls')].invalidations = << >> )
          => /\ hashCalls'[Len(hashCalls')].status = "resolved"
             /\ hashCalls'[Len(hashCalls')].result = << >>
             /\ UNCHANGED <<hashCache, hashPromises, hashFileCount, files>>]_vars

\* A call with the empty list, made while the memo holds a file hash.
C7_Witness ==
  \E c \in HashCallIds :
    /\ c > 1
    /\ hashCalls[c].invalidations = << >>
    /\ hashCalls[c].status = "resolved"
    /\ hashCalls[c - 1].awaited # {}
    /\ \E filePath \in FilePaths : hashCache[filePath] # NoEntry

\* C8: within one build hashFile is invoked at most once per file path, and every
\* call issued in the build that needs the hash of a path awaits the one promise
\* the memo holds for it, settled or still in flight.
C8_FileHashedOncePerBuild ==
  /\ \A filePath \in FilePaths :
       /\ hashFileCount[filePath] <= 1
       /\ hashFileCount[filePath] =
            Cardinality({k \in 1..Len(hashPromises) :
                           /\ hashPromises[k].filePath = filePath
                           /\ hashPromises[k].build = build})
  /\ \A c \in HashCallIds :
       IssuedInCurrentBuild(c)
         => \A k \in hashCalls[c].awaited : hashCache[hashPromises[k].filePath] = k

\* Two calls of the build in flight on the same promise, itself in flight, one of
\* them with a list that mentions the path twice.
C8_Witness ==
  \E c, d \in HashCallIds :
    /\ c # d
    /\ IssuedInCurrentBuild(c) /\ IssuedInCurrentBuild(d)
    /\ hashCalls[c].status = "pending" /\ hashCalls[d].status = "pending"
    /\ hashCalls[c].awaiting = hashCalls[d].awaiting
    /\ hashPromises[hashCalls[c].awaiting].state = "pending"
    /\ \E filePath \in FilePaths :
         /\ Occurrences(hashCalls[c].invalidations, FileInvalidation(filePath)) = 2
         /\ hashFileCount[filePath] = 1

\* C9: the file-hash memo does not leak across builds: a call issued in the
\* current build only awaits file hashes computed in the current build, hence
\* from the files' current content, never a promise memoized in an earlier build.
C9_MemoScopedToBuild ==
  /\ \A filePath \in FilePaths :
       hashCache[filePath] # NoEntry => hashPromises[hashCache[filePath]].build = build
  /\ \A c \in HashCallIds :
       IssuedInCurrentBuild(c)
         => \A k \in hashCalls[c].awaited :
              /\ hashPromises[k].build = build
              /\ hashPromises[k].state = "fulfilled"
                   => hashPromises[k].value = hashFileOf(files[hashPromises[k].filePath])

\* The same list resolved in build 1 and, after the file changed, in build 2,
\* with different digests.
C9_Witness ==
  \E c, d \in HashCallIds :
    /\ hashCalls[c].build = 1 /\ hashCalls[d].build = 2 /\ build = 2
    /\ hashCalls[c].invalidations = hashCalls[d].invalidations
    /\ hashCalls[c].awaited # {} /\ hashCalls[d].awaited # {}
    /\ hashCalls[c].status = "resolved" /\ hashCalls[d].status = "resolved"
    /\ hashCalls[c].result # hashCalls[d].result

\* C10: an entry whose kind is none of file, env, option is fatal:
\* getInvalidationId throws for it, and every call whose non-empty list contains
\* one is rejected with that error, whatever the list's length and the entry's
\* position in it.
C10_UnknownKindIsFatal ==
  /\ ~getInvalidationId(UnknownInvalidation).ok
  /\ \A c \in HashCallIds :
       HasUnknownKind(hashCalls[c].invalidations)
         => /\ hashCalls[c].status = "rejected"
            /\ hashCalls[c].result = <<"Unknown invalidation type: ", "glob">>
            /\ hashCalls[c].awaited = {}

\* A rejected call whose only entry is of unknown kind, and a rejected call with
\* a file entry first and the unknown entry last.
C10_Witness ==
  \E c, d \in HashCallIds :
    /\ hashCalls[c].invalidations = << UnknownInvalidation >>
    /\ hashCalls[c].status = "rejected"
    /\ Len(hashCalls[d].invalidations) >= 2
    /\ hashCalls[d].invalidations[1].type = "file"
    /\ hashCalls[d].invalidations[Len(hashCalls[d].invalidations)] = UnknownInvalidation
    /\ hashCalls[d].status = "rejected"

(***************************************************************************)
(* Properties of the digest's inputs, checked under SpecDigest.            *)
(***************************************************************************)
\* The text an entry stands for in the hashed string when a key without a
\* current value counts as the empty string.
ExpectedEntryText(invalidation, opts) ==
  CASE invalidation.type = "file" -> hashFileOf(files[invalidation.filePath])
    [] invalidation.type = "env" ->
         invalidation.key \o <<":">>
           \o (IF invalidation.key \in DOMAIN opts.env
                 THEN opts.env[invalidation.key] ELSE << >>)
    [] invalidation.type = "option" ->
         invalidation.key \o <<":">>
           \o (IF invalidation.key \in DOMAIN opts.option
                 THEN opts.option[invalidation.key] ELSE << >>)

RECURSIVE ExpectedHashes(_, _)
ExpectedHashes(sorted, opts) ==
  IF sorted = << >> THEN << >>
  ELSE ExpectedEntryText(Head(sorted), opts) \o ExpectedHashes(Tail(sorted), opts)

HasAbsentKey(call) ==
  \E i \in 1..Len(call.invalidations) :
    LET e == call.invalidations[i]
    IN \/ e.type = "env" /\ e.key \notin DOMAIN call.options.env
       \/ e.type = "option" /\ e.key \notin DOMAIN call.options.option

\* C11: an env entry whose key is absent from options.env, and an option entry
\* whose key is absent from the build options, contribute the empty string as
\* their value: the digest of a resolved call is the hash of the entries' texts
\* in sorted order, where such an entry's text is its key, ':' and nothing more.
C11_AbsentValueIsEmptyString ==
  \A c \in 1..Len(hashCalls) :
    (hashCalls[c].status = "resolved" /\ hashCalls[c].invalidations # << >>)
      => hashCalls[c].result =
           hashString(ExpectedHashes(sortedInvalidationsOf(hashCalls[c].invalidations).value,
                                     hashCalls[c].options))

\* A resolved call whose list holds an env and an option entry, both without a
\* current value, and a file.
C11_Witness ==
  \E c \in 1..Len(hashCalls) :
    /\ hashCalls[c].status = "resolved"
    /\ hashCalls[c].options = bareOptions
    /\ \E i, j, k \in 1..Len(hashCalls[c].invalidations) :
         /\ hashCalls[c].invalidations[i].type = "env"
         /\ hashCalls[c].invalidations[j].type = "option"
         /\ hashCalls[c].invalidations[k].type = "file"
    /\ HasAbsentKey(hashCalls[c])
    /\ hashCalls[c].result = hashString(<<"e", ":">> \o hashFileOf(<<"x">>) \o <<"o", ":">>)

(***************************************************************************)
(* Properties of asset identity, checked under SpecAssetId.                *)
(***************************************************************************)
\* The calls made so far, each named by its caller and its position.
IdCalls == {call \in IdCallers \X (1..MaxIdCalls) : call[2] <= Len(idResults[call[1]])}
IdOf(call) == idResults[call[1]][call[2]]
OptionsOf(call) == idOptions[call[1]]

\* The six inputs of the id.
IdentityInputs(options) ==
  << IF options.idBase # Null THEN options.idBase ELSE options.filePath,
     options.type, options.env.id, options.uniqueKey, options.pipeline, options.query >>

\* C12: createAssetIdFromOptions is a function of (idBase if non-null else
\* filePath, type, env.id, uniqueKey, pipeline, query): two calls whose options
\* agree on these six inputs return the same id, whichever call came first,
\* whatever their other fields hold (hash, meta, isSource, stats, symbols,
\* sideEffects, filePath when idBase is given) and whatever was called before.
C12_IdIsFunctionOfIdentityInputs ==
  \A call, other \in IdCalls :
    IdentityInputs(OptionsOf(call)) = IdentityInputs(OptionsOf(other))
      => IdOf(call) = IdOf(other)

\* Two calls with the same idBase and identity inputs whose options differ in
\* filePath and in every other field.
C12_Witness ==
  /\ Len(idResults["p"]) = 1 /\ Len(idResults["q"]) = 1
  /\ IdentityInputs(idOptions["p"]) = IdentityInputs(idOptions["q"])
  /\ idOptions["p"].idBase # Null
  /\ idOptions["p"].filePath # idOptions["q"].filePath
  /\ idOptions["p"].hash # idOptions["q"].hash
  /\ idOptions["p"].sideEffects # idOptions["q"].sideEffects
  /\ idOptions["p"].query.given
  /\ idResults["p"] = idResults["q"]

\* C13: two option records with the same path, type, environment, pipeline and
\* query and different unique keys (no uniqueKey counting as the key '') get
\* different identity inputs, hence different ids.
C13_UniqueKeySeparatesIds ==
  \A call, other \in IdCalls :
    ( /\ idBaseOf(OptionsOf(call)) = idBaseOf(OptionsOf(other))
      /\ OptionsOf(call).type = OptionsOf(other).type
      /\ OptionsOf(call).env = OptionsOf(other).env
      /\ OptionsOf(call).pipeline = OptionsOf(other).pipeline
      /\ OptionsOf(call).query = OptionsOf(other).query
      /\ orDefault(OptionsOf(call).uniqueKey, << >>)
           # orDefault(OptionsOf(other).uniqueKey, << >>) )
      => IdOf(call) # IdOf(other)

\* The same file, type, pipeline and query, once without a uniqueKey and once
\* with the key 'u': two ids.
C13_Witness ==
  /\ Len(idResults["p"]) = 1 /\ Len(idResults["q"]) = 1
  /\ idOptions["p"].uniqueKey = Null
  /\ idOptions["q"].uniqueKey = <<"u">>
  /\ idOptions["q"] = [idOptions["p"] EXCEPT !.uniqueKey = <<"u">>]
  /\ idResults["p"] # idResults["q"]

(***************************************************************************)
(* Properties of createAsset, checked under SpecCreateAsset.               *)
(***************************************************************************)
\* C14: createAsset takes options.id as the id when it is non-null and the id
\* of createAssetIdFromOptions otherwise, and fills in only the fields that are
\* missing: dependencies an empty map, sideEffects true, isBundleSplittable
\* true, meta an empty object, committed false, uniqueKey ''; sideEffects =
\* false and isBundleSplittable = false are kept as given.
C14_CreateAssetDefaults ==
  asset # NoAsset =>
    LET created == asset[1]
        Filled(given, value, default) ==
          IF given = Null THEN value = default ELSE value = given
    IN /\ IF assetOptions.id # Null THEN created.id = assetOptions.id
          ELSE created.id = createAssetIdFromOptions(assetOptions)
       /\ Filled(assetOptions.dependencies, created.dependencies, NewMap)
       /\ Filled(assetOptions.sideEffects, created.sideEffects, True)
       /\ Filled(assetOptions.isBundleSplittable, created.isBundleSplittable, True)
       /\ Filled(assetOptions.meta, created.meta, EmptyObject)
       /\ Filled(assetOptions.committed, created.committed, False)
       /\ Filled(assetOptions.uniqueKey, created.uniqueKey, << >>)
       /\ assetOptions.sideEffects = False => created.sideEffects = False
       /\ assetOptions.isBundleSplittable = False => created.isBundleSplittable = False

\* An asset created without an id and with sideEffects and isBundleSplittable
\* false, dependencies and committed missing.
C14_Witness ==
  /\ asset # NoAsset
  /\ assetOptions.id = Null
  /\ assetOptions.sideEffects = False /\ asset[1].sideEffects = False
  /\ assetOptions.isBundleSplittable = False /\ asset[1].isBundleSplittable = False
  /\ assetOptions.dependencies = Null /\ asset[1].dependencies = NewMap
  /\ assetOptions.committed = Null /\ asset[1].committed = False
  /\ assetOptions.uniqueKey = << >>

(***************************************************************************)
(* Properties of the PostCSS transform, checked under SpecTransform.       *)
(***************************************************************************)
DirDependencies ==
  {k \in 1..Len(transformRun.messages) : transformRun.messages[k].type = "dir-dependency"}

\* C15: when transform has returned, the asset holds every invalidation its
\* messages stand for: the file of each 'dependency' message as a file-change
\* invalidation; for each 'dir-dependency' message a file-change invalidation
\* for every file that matched the pattern when it was globbed and a file-create
\* invalidation for the pattern itself, so that every matching file that exists
\* now, created before or after the glob, is covered by one of the two.
C15_TransformRecordsInvalidations ==
  transformRun.pc = "done" =>
    /\ \A k \in 1..Len(transformRun.messages) :
         transformRun.messages[k].type = "dependency"
           => transformRun.messages[k].file \in cssAsset.invalidateOnFileChange
    /\ \A k \in DirDependencies :
         LET pattern == patternOf(transformRun.messages[k])
         IN /\ pattern \in cssAsset.invalidateOnFileCreate
            /\ \E g \in 1..Len(globLog) :
                 /\ globLog[g].pattern = pattern
                 /\ \A file \in globLog[g].existing :
                      globMatches(pattern, file)
                        => file \in cssAsset.invalidateOnFileChange
            /\ \A file \in assetFs :
                 globMatches(pattern, file)
                   => \/ file \in cssAsset.invalidateOnFileChange
                      \/ \E created \in cssAsset.invalidateOnFileCreate :
                           globMatches(created, file)

\* A transform that returned after a 'dependency' and a 'dir-dependency' message:
\* d/x matched the glob, d/y was created after the glob and is covered by the
\* file-create invalidation only.
C15_Witness ==
  /\ transformRun.pc = "done"
  /\ \E k \in 1..Len(transformRun.messages) : transformRun.messages[k].type = "dependency"
  /\ DirDependencies # {}
  /\ Len(globLog) = 1
  /\ <<"d", "/", "x">> \in globLog[1].existing
  /\ <<"d", "/", "y">> \notin globLog[1].existing
  /\ <<"d", "/", "y">> \in assetFs
  /\ <<"d", "/", "x">> \in cssAsset.invalidateOnFileChange
  /\ <<"d", "/", "y">> \notin cssAsset.invalidateOnFileChange
  /\ <<"d", "/", "**/*">> \in cssAsset.invalidateOnFileCreate

(***************************************************************************)
(* Properties of the asset graph build, checked under SpecBuild.           *)
(***************************************************************************)
\* C16: a dependency with isOptional that cannot be resolved does not fail the
\* build: it is left unresolved and the build goes on to its result, which is a
\* failure only if some other error occurred; a non-optional dependency that
\* cannot be resolved is never left unresolved and makes the build result a
\* failure.
C16_OptionalDependencyDoesNotFailBuild ==
  /\ \A d \in Dependencies :
       /\ depStatus[d] = "unresolved" => depOptional[d]
       /\ depStatus[d] = "resolution failed" => ~depOptional[d]
  /\ buildResult # "running" =>
       /\ \A d \in Dependencies : depStatus[d] # "pending"
       /\ buildResult = "failure"
            <=> \E d \in Dependencies :
                  \/ depStatus[d] = "transform failed"
                  \/ depStatus[d] = "resolution failed" /\ ~depOptional[d]

\* A build that succeeded with an optional dependency left unresolved and the
\* other declared dependencies resolved.
C16_Witness ==
  /\ buildResult = "success"
  /\ depStatus["d1"] = "unresolved"
  /\ depStatus["d2"] = "resolved"
  /\ "C" \in graphAssets

\* C17: createBundle with an entry asset makes a bundle whose type, environment
\* and identity are those of the entry asset; without one it makes a bundle
\* from the explicit uniqueKey, type and env; given neither it is rejected,
\* makes no bundle and leaves the bundle graph as it was.
C17_CreateBundleRequiresEntryOrTriple ==
  [][lastCreateBundle' # lastCreateBundle =>
       LET opts == lastCreateBundle'.opts
           made == bundles' \ bundles
       IN  IF opts.entryAsset # None
             THEN /\ lastCreateBundle'.outcome = "created"
                  /\ \E b \in bundles' :
                       /\ b.entryAsset = opts.entryAsset
                       /\ b.type = assetType(opts.entryAsset)
                       /\ b.env = assetEnv(opts.entryAsset)
                       /\ b.id = "bundle:" \o opts.entryAsset
                       /\ made \subseteq {b}
           ELSE IF opts.uniqueKey # None /\ opts.type # None /\ opts.env # None
             THEN /\ lastCreateBundle'.outcome = "created"
                  /\ \E b \in bundles' :
                       /\ b.entryAsset = None
                       /\ b.type = opts.type
                       /\ b.env = opts.env
                       /\ b.id = "bundle:" \o opts.uniqueKey
                       /\ made \subseteq {b}
           ELSE /\ lastCreateBundle'.outcome = "rejected"
                /\ UNCHANGED <<bundles, bundleGroups, internalized, contains>>]_vars

\* A call with neither an entry asset nor the full triple was rejected while
\* the graph holds a bundle made from an entry asset and one made from a triple.
C17_Witness ==
  /\ lastCreateBundle.outcome = "rejected"
  /\ lastCreateBundle.opts.entryAsset = None
  /\ lastCreateBundle.opts.type # None
  /\ \E b \in bundles : b.entryAsset = "a2" /\ b.type = "css"
  /\ \E b \in bundles : b.entryAsset = None /\ b.id = "bundle:k"

\* C18: resolveAsyncDependency returns nothing for a dependency that was
\* excluded or is not async; otherwise it returns the asset once
\* internalizeAsyncDependency made the edge in-bundle for the asking bundle,
\* else the bundle group created for the dependency; and right after
\* createBundleGroup(dep, target) on a lazy dependency that was not excluded,
\* resolveAsyncDependency(dep) returns that group.
C18_ResolveAsyncDependency ==
  /\ [](\A dep \in BundleDependencies, bundleId \in BundleIds \cup {None} :
         LET r == resolveAsyncDependency(dep, bundleId)
         IN  IF dep = "excluded" \/ priority(dep) # "lazy" THEN r = Nothing
             ELSE IF <<bundleId, dep>> \in internalized
               THEN r.type = "asset" /\ r.id = resolvedAsset(dep)
             ELSE \A g \in bundleGroups :
                    g.dependency = dep =>
                      r.type = "bundle_group" /\ r.target = g.target
                        /\ r.id = g.entryAssetId)
  /\ [][\A g \in bundleGroups' \ bundleGroups :
          g.dependency = "lazy" =>
            (resolveAsyncDependency(g.dependency, None))' =
              [type |-> "bundle_group", target |-> g.target, id |-> resolvedAsset("lazy")]]_vars

\* The lazy dependency has a bundle group and was made in-bundle for one
\* bundle, while another bundle exists; the excluded and the sync dependency
\* have bundle groups too.
C18_Witness ==
  /\ \A dep \in BundleDependencies : \E g \in bundleGroups : g.dependency = dep
  /\ <<"bundle:a1", "lazy">> \in internalized
  /\ <<"bundle:a2", "lazy">> \notin internalized
  /\ \E b \in bundles : b.id = "bundle:a2"
  /\ resolveAsyncDependency("lazy", "bundle:a1").type = "asset"
  /\ resolveAsyncDependency("lazy", "bundle:a2").type = "bundle_group"
  /\ resolveAsyncDependency("excluded", "bundle:a2") = Nothing

\* C19: symbol resolution terminates on every graph, cyclic re-export chains
\* included, and never looks up the same (asset id, symbol) pair twice; where
\* A re-exports x from B and B re-exports x from A, resolveSymbol(A, x) ends
\* with symbol undefined (not found) or null (bail-out).
ReexportCycle ==
  /\ symbolGraph.deps[<<"A", "x">>] = << <<"B", "x">> >>
  /\ symbolGraph.deps[<<"B", "x">>] = << <<"A", "x">> >>
  /\ symbolGraph.skipped = {}
C19_ResolveSymbolTerminates ==
  /\ [](\A i, j \in 1..Len(visitLog) : i # j => visitLog[i] # visitLog[j])
  /\ <>(resolution.status = "done")
  /\ [](ReexportCycle /\ resolution.status = "done" =>
          resolution.symbol \in {SymbolUndefined, SymbolNull})

\* The cycle between A and B was walked once around and the query ended as
\* not found, with neither a boundary nor a cleared table cutting it short.
C19_Witness ==
  /\ ReexportCycle
  /\ ~symbolGraph.boundary.given
  /\ symbolGraph.cleared = {}
  /\ visitLog = << <<"A", "x">>, <<"B", "x">> >>
  /\ resolution = Done("A", SymbolUndefined)

\* C20: with a boundary bundle, resolveSymbol stops at the first asset outside
\* the boundary: no asset outside it is looked up, and the result names that
\* asset with symbol undefined; symbol null is given only for an asset whose
\* table is cleared, false only where a skipped dependency was met, undefined
\* only for the asset outside the boundary or when nothing was found, and a
\* local name only for an asset declaring the symbol.
C20_ResolveSymbolStopsAtBoundary ==
  /\ [](\A node \in Range(visitLog) :
          symbolGraph.boundary.given => node[1] \in symbolGraph.boundary.assets)
  /\ [](resolution.status = "done" =>
          LET left == /\ symbolGraph.boundary.given
                      /\ resolution.asset \notin symbolGraph.boundary.assets
          IN  /\ left => resolution.symbol = SymbolUndefined
              /\ resolution.symbol = SymbolNull =>
                   resolution.asset \in symbolGraph.cleared
              /\ resolution.symbol = SymbolFalse =>
                   \E d \in symbolGraph.skipped :
                     d[1][1] = resolution.asset /\ d[1] \in Range(visitLog)
              /\ resolution.symbol = SymbolUndefined =>
                   left \/ resolution.asset = "A"
              /\ resolution.symbol \notin {SymbolNull, SymbolFalse, SymbolUndefined} =>
                   \E node \in symbolGraph.declares :
                     /\ node[1] = resolution.asset
                     /\ resolution.symbol = localName(node)
                     /\ resolution.asset \notin symbolGraph.cleared)
  /\ [][/\ resolution.status = "running"
        /\ Top.phase = "enter"
        /\ symbolGraph.boundary.given
        /\ Top.node[1] \notin symbolGraph.boundary.assets
        => resolution' = Done(Top.node[1], SymbolUndefined)]_vars

\* The chain A -> B -> C left the boundary {A, B} at C, which declares x: the
\* result names C and leaves the symbol undefined.
C20_Witness ==
  /\ symbolGraph.boundary = Boundary({"A", "B"})
  /\ symbolGraph.declares = {<<"C", "x">>}
  /\ symbolGraph.cleared = {}
  /\ visitLog = << <<"A", "x">>, <<"B", "x">> >>
  /\ resolution = Done("C", SymbolUndefined)

\* The assets reached from a root along dependencies outside skip, and the
\* assets that only sync dependencies lead to (the entry a1 and its sync child).
ReachedFrom(root, skip) ==
  {root} \cup {resolvedAsset(d) : d \in {e \in BundleDependencies \ skip : sourceAsset(e) = root}}
SyncOnlyAssets ==
  {a \in BundleAssets \cup {"a3"} :
     \A d \in BundleDependencies : resolvedAsset(d) = a => priority(d) = "sync"}
SyncReached(root) ==
  {root} \cup {resolvedAsset(d) :
                 d \in {e \in BundleDependencies : sourceAsset(e) = root /\ priority(e) = "sync"}}

CannotRunErrors == {<<"Asset has no AST">>, <<"plugin does not have a generate method">>}
RunsOfKey(key) ==
  {r \in 1..Len(genRuns) : key \in {contentKey(genRuns[r].value), mapKey(genRuns[r].value)}}
C22_FailedGenerationLeavesCache ==
  /\ \A r \in 1..Len(genRuns) :
       LET run == genRuns[r]
       IN  /\ ast[run.value] = NoAST /\ run.pc # "getAST" =>
                /\ run.pc = "rejected"
                /\ run.error = <<"Asset has no AST">>
                /\ ~run.pluginLoaded
           /\ run.pc = "rejected" /\ run.error \in CannotRunErrors =>
                /\ run.contentWrite = "none" /\ run.mapWrite = "none"
                /\ run.content = NoBlob /\ run.map = NoMap
                /\ generateCount[run.value] <=
                     Cardinality({q \in 1..Len(genRuns) :
                                    genRuns[q].value = run.value /\ q # r})
  /\ \A key \in CacheKeys :
       (\A r \in RunsOfKey(key) :
          genRuns[r].pc = "rejected" /\ genRuns[r].error \in CannotRunErrors)
         => cache[key] = NoBlob /\ \A e \in cacheLog : e[1] # key

\* One run failed for lack of an AST and another for lack of a generate
\* method, while a run of another asset wrote its content to the cache.
C22_Witness ==
  /\ \E r \in 1..Len(genRuns) :
       genRuns[r].pc = "rejected" /\ genRuns[r].error = <<"Asset has no AST">>
  /\ \E r \in 1..Len(genRuns) :
       /\ genRuns[r].pc = "rejected"
       /\ genRuns[r].error = <<"plugin does not have a generate method">>
       /\ cache[contentKey(genRuns[r].value)] = NoBlob
  /\ \E key \in CacheKeys : cache[key] # NoBlob

\* C23: once a run for an Asset value was rejected (no AST, plugin not loaded
\* or without generate, generate threw, a cache write failed), a later
\* generateFromAST call for that value is handed that same rejected run, so
\* the same error: it starts no run, invokes generate no further time and
\* writes nothing to the cache.
FailedRuns(value) ==
  {r \in 1..Len(genRuns) : genRuns[r].value = value /\ genRuns[r].pc = "rejected"}
C23_FailureIsNotRetried ==
  [][Len(genCallers') = Len(genCallers) + 1 =>
       LET caller == genCallers'[Len(genCallers')]
       IN  FailedRuns(caller.value) # {} =>
             /\ caller.output \in FailedRuns(caller.value)
             /\ genRuns' = genRuns
             /\ generateCount' = generateCount
             /\ cache' = cache /\ cacheLog' = cacheLog]_vars

\* After a generate that threw, and an AST replaced meanwhile, a second
\* call for the same value got the rejected run of the first.
C23_Witness ==
  \E c, d \in 1..Len(genCallers) :
    /\ c < d
    /\ genCallers[c].value = genCallers[d].value
    /\ genCallers[d].settledAtCall
    /\ genCallers[d].output = genCallers[c].output
    /\ genRuns[genCallers[d].output].pc = "rejected"
    /\ genRuns[genCallers[d].output].error = <<"generate threw">>
    /\ generateCount[genCallers[d].value] = 1
    /\ mutations > 0

\* C24: once the hashFile promise of a path was rejected in a build, no call
\* of that build whose list holds the path is resolved, a settled one is
\* rejected, and a call made after the failure leaves the memo entry and the
\* number of hashFile invocations for that path as they were, whatever the
\* file has become since.
FailedPaths(b) ==
  {p \in FilePaths :
     \E q \in 1..Len(hashPromises) :
       /\ hashPromises[q].filePath = p
       /\ hashPromises[q].build = b
       /\ hashPromises[q].state = "rejected"}
ListedPaths(invalidations) ==
  {invalidations[k].filePath :
     k \in {j \in 1..Len(invalidations) : invalidations[j].type = "file"}}
C24_FailedFileHashIsMemoized ==
  /\ [](\A c \in 1..Len(hashCalls) :
          ListedPaths(hashCalls[c].invalidations) \cap FailedPaths(hashCalls[c].build) # {}
            => hashCalls[c].status # "resolved")
  /\ [][Len(hashCalls') = Len(hashCalls) + 1 =>
          \A p \in ListedPaths(hashCalls'[Len(hashCalls')].invalidations) \cap FailedPaths(build) :
            /\ hashCache'[p] = hashCache[p]
            /\ hashFileCount'[p] = hashFileCount[p]
            /\ hashPromises' = hashPromises \/ \A q \in Len(hashPromises) + 1..Len(hashPromises') :
                                                 hashPromises'[q].filePath # p]_vars

\* Hashing file b failed; b has become readable since, and a second call
\* listing only b was rejected with the memoized failure, b hashed once.
C24_Witness ==
  /\ Len(hashCalls) >= 2
  /\ files[<<"b">>] # Unreadable
  /\ hashCalls[2].invalidations = <<FileInvalidation(<<"b">>)>>
  /\ hashCalls[2].status = "rejected"
  /\ hashCalls[2].result = Unreadable
  /\ hashCalls[1].status = "rejected"
  /\ hashFileCount[<<"b">>] = 1

\* C25: a getInvalidationHash call whose list holds an entry of unknown kind,
\* at whatever position, is rejected at once and has no side effect: no
\* hashFile promise is made, no file is counted as hashed, and the memo is
\* what it was before the call.
C25_UnknownKindHasNoSideEffect ==
  [][Len(hashCalls') = Len(hashCalls) + 1 =>
       LET call == hashCalls'[Len(hashCalls')]
       IN  HasUnknownKind(call.invalidations) =>
             /\ call.status = "rejected"
             /\ call.awaited = {}
             /\ hashCache' = hashCache
             /\ hashPromises' = hashPromises
             /\ hashFileCount' = hashFileCount]_vars

\* Two calls were rejected, one with the unknown entry after a file entry and
\* one with it before; file b was never hashed and is not in the memo.
C25_Witness ==
  /\ Len(hashCalls) >= 2
  /\ hashCalls[1].invalidations = <<FileInvalidation(<<"b">>), UnknownInvalidation>>
  /\ hashCalls[2].invalidations = <<UnknownInvalidation, FileInvalidation(<<"b">>)>>
  /\ hashCalls[1].status = "rejected" /\ hashCalls[2].status = "rejected"
  /\ hashCache[<<"b">>] = NoEntry
  /\ hashFileCount[<<"b">>] = 0

\* C26: two resolved runs of getInvalidationHash on the same list return the
\* same digest when every listed file had the same content hash, every listed
\* env key the same value and every listed option the same value in both,
\* whatever the files, env variables and options outside the list were.
ListedKeys(invalidations, type) ==
  {invalidations[k].key :
     k \in {j \in 1..Len(invalidations) : invalidations[j].type = type}}
FileHashSeen(call, p) ==
  {hashPromises[q].value : q \in {r \in call.awaited \ {NoEntry} : hashPromises[r].filePath = p}}
SameListedState(c, d) ==
  /\ c.invalidations = d.invalidations
  /\ \A p \in ListedPaths(c.invalidations) : FileHashSeen(c, p) = FileHashSeen(d, p)
  /\ \A k \in ListedKeys(c.invalidations, "env") :
       envLookup(c.options, k) = envLookup(d.options, k)
  /\ \A k \in ListedKeys(c.invalidations, "option") :
       optionLookup(c.options, k) = optionLookup(d.options, k)
C26_DigestDependsOnListedOnly ==
  \A i, j \in 1..Len(hashCalls) :
    LET c == hashCalls[i]
        d == hashCalls[j]
    IN  c.status = "resolved" /\ d.status = "resolved" /\ SameListedState(c, d)
          => c.result = d.result

\* Two runs on the list [file a] in two builds: file b, the env value and the
\* build option differ between them, file a does not, and the digests are
\* equal.
C26_Witness ==
  /\ Len(hashCalls) >= 2
  /\ hashCalls[1].invalidations = <<FileInvalidation(<<"a">>)>>
  /\ SameListedState(hashCalls[1], hashCalls[2])
  /\ hashCalls[1].status = "resolved" /\ hashCalls[2].status = "resolved"
  /\ hashCalls[1].build # hashCalls[2].build
  /\ optionLookup(hashCalls[1].options, <<"o">>) # optionLookup(hashCalls[2].options, <<"o">>)
  /\ envLookup(hashCalls[1].options, <<"e">>) # envLookup(hashCalls[2].options, <<"e">>)
  /\ files[<<"b">>] = <<"y">>
  /\ hashCalls[1].awaited # hashCalls[2].awaited
  /\ hashCalls[1].result = hashCalls[2].result
  /\ hashCalls[1].result # << >>

\* C27: two resolved runs of getInvalidationHash on one list, in which some
\* listed env key has different values (an absent variable counting as the
\* empty string), hash different strings and so return different digests.
C27_DigestSensitiveToListedEnv ==
  \A i, j \in 1..Len(hashCalls) :
    LET c == hashCalls[i]
        d == hashCalls[j]
    IN  /\ c.status = "resolved" /\ d.status = "resolved"
        /\ c.invalidations = d.invalidations
        /\ \E k \in ListedKeys(c.invalidations, "env") :
             envValueOrEmpty(c.options, k) # envValueOrEmpty(d.options, k)
        => c.result # d.result

\* The six identity inputs as the id sees them: no uniqueKey and no pipeline
\* are the empty string, a query is its set of key/value pairs.
NormalIdentityInputs(options) ==
  << idBaseOf(options), options.type, options.env.id,
     orDefault(options.uniqueKey, << >>), orDefault(options.pipeline, << >>),
     options.query.given, objectSortedEntries(options.query.entries) >>

\* C28: two createAssetIdFromOptions calls whose options differ in at least
\* one of idBase-or-filePath, type, env.id, uniqueKey, pipeline and query hash
\* different strings and so return different ids.
C28_IdentityInputIsInjective ==
  \A call, other \in IdCalls :
    NormalIdentityInputs(OptionsOf(call)) # NormalIdentityInputs(OptionsOf(other))
      => IdOf(call) # IdOf(other)

\* C29: two createAssetIdFromOptions calls whose options agree in every
\* identity input but the query, and whose queries hold the same key/value
\* pairs inserted in different orders, return the same id.
Pairs(query) == {query.entries[k] : k \in 1..Len(query.entries)}
C29_QueryKeyOrderIsIrrelevant ==
  \A call, other \in IdCalls :
    LET o == OptionsOf(call)
        p == OptionsOf(other)
    IN  /\ IdentityInputs([o EXCEPT !.query = NoQuery])
             = IdentityInputs([p EXCEPT !.query = NoQuery])
        /\ o.query.given /\ p.query.given
        /\ Pairs(o.query) = Pairs(p.query)
        => IdOf(call) = IdOf(other)

\* The keys a and b were inserted in the two orders, and the ids are equal.
C29_Witness ==
  /\ Len(idResults["p"]) = 1 /\ Len(idResults["q"]) = 1
  /\ idOptions["p"].query = Query(<< <<<<"a">>, <<"v">>>>, <<<<"b">>, <<"w">>>> >>)
  /\ idOptions["q"].query = Query(<< <<<<"b">>, <<"w">>>>, <<<<"a">>, <<"v">>>> >>)
  /\ idOptions["p"].pipeline = idOptions["q"].pipeline
  /\ idResults["p"] = idResults["q"]

(***************************************************************************)
(* Properties of the symbols set by the PostCSS transform                  *)
(***************************************************************************)

\* The local names the asset's symbol table binds to an export name.
LocalsOf(k) == {e[2] : e \in {f \in cssAsset.symbols.table : f[1] = k}}

\* The class names of the class map the run was handed, and their local names.
ClassEntries == Range(transformRun.cssModules.entries)

\* The assets a returned transform handed back: the CSS asset alone, or the
\* CSS asset followed by the companion JS asset.
ReturnsCssOnly ==
  /\ Len(transformRun.assets) = 1
  /\ transformRun.assets[1].type = cssAsset.type
ReturnsCssAndCompanion ==
  /\ Len(transformRun.assets) = 2
  /\ transformRun.assets[1].type = cssAsset.type
  /\ transformRun.assets[2].type = <<"js">>

\* C30 as stated: a transform that returned with a class map returned the CSS
\* asset and a JS companion, and the asset's symbol table is not cleared, binds
\* every class name k of the map to cssModules[k] and binds 'default' to
\* 'default'; a transform that returned without a class map returned the CSS
\* asset alone and the symbol table is the one the asset had at the call.
C30_EveryClassNameIsBound ==
  transformRun.pc = "done" =>
    IF transformRun.cssModules.given
      THEN /\ ReturnsCssAndCompanion
           /\ ~cssAsset.symbols.isCleared
           /\ \A e \in ClassEntries : LocalsOf(e[1]) = {e[2]}
           /\ LocalsOf(<<"default">>) = {<<"default">>}
      ELSE /\ ReturnsCssOnly
           /\ cssAsset.symbols = transformRun.symbolsBefore

\* C30, amended: as stated, for every class name k other than 'default'.  A
\* class named 'default' is bound to 'default' like the export of the whole
\* map, its own local name is not in the table.  Until the transform returns,
\* and when it fails, the symbol table is the one the asset had at the call.
C30_ClassNamesButDefaultAreBound ==
  /\ transformRun.pc = "done" =>
       IF transformRun.cssModules.given
         THEN /\ ReturnsCssAndCompanion
              /\ ~cssAsset.symbols.isCleared
              /\ \A e \in ClassEntries :
                   e[1] # <<"default">> => LocalsOf(e[1]) = {e[2]}
              /\ LocalsOf(<<"default">>) = {<<"default">>}
         ELSE /\ ReturnsCssOnly
              /\ cssAsset.symbols = transformRun.symbolsBefore
  /\ transformRun.pc # "done" => cssAsset.symbols = transformRun.symbolsBefore

\* A transform that returned with the class map {c: '_c_h', default: '_d_h'}
\* on an asset whose table bound c to another local name before: c is bound to
\* '_c_h' now and the class named 'default' to 'default'.
C30_Witness ==
  /\ transformRun.pc = "done"
  /\ transformRun.cssModules.given
  /\ << <<"default">>, <<"_d_h">> >> \in ClassEntries
  /\ << <<"c">>, <<"old">> >> \in transformRun.symbolsBefore.table
  /\ LocalsOf(<<"c">>) = {<<"_c_h">>}
  /\ LocalsOf(<<"default">>) = {<<"default">>}
  /\ Len(transformRun.assets) = 2

====
